---------------------------- MODULE Spec2Model ----------------------------
(***************************************************************************)
(* A model of own::List<T> (include/list.hpp): the heap of details::Node   *)
(* objects with their _value/_back/_next fields, and List objects with     *)
(* their head/tail/_len fields.  Every List method is a state transformer  *)
(* on a record S holding the whole program state; an action applies one    *)
(* method call atomically (the structure is single-threaded).              *)
(*                                                                         *)
(* Undefined behaviour: a call that dereferences NULL (S.fault) or touches *)
(* a destroyed node (S.ub) has no defined outcome; the model records that  *)
(* the program got there (Fault sets crashed) and follows it no further.   *)
(* A value the code leaves indeterminate is drawn from all values.         *)
(***************************************************************************)
EXTENDS Integers, Sequences, FiniteSets, TLC

\* ------------------------------------------------------------------ bounds
MaxNodes == 5          \* node slots of the heap
MaxSeq   == 3          \* nodes alive at once in a run of mutating calls
MaxVal   == 2          \* element values are 1..MaxVal
MaxOps   == 4          \* calls in a run of the specification of all calls
MaxText  == 4          \* characters of a text given to operator>>

\* usize is modelled 8 bits wide: arithmetic on lengths is taken modulo
\* USIZE_MOD (list.hpp:25 makes it std::size_t).
USIZE_MOD == 256

NULL   == 0
Nodes  == 1..MaxNodes
\* The heap maps are also defined at NULL, where nothing is ever stored, so
\* that an expression reading through NULL has a value after the fault.
Slots  == 0..MaxNodes
Values == 1..MaxVal
Lists  == {"a", "b"}
\* The list object a method builds and returns by value.
Temps  == {"r"}
Objects == Lists \cup Temps
Indices == 0..MaxNodes
\* No loop over a well-formed chain takes more steps than this.
Fuel   == 2 * MaxNodes + 2

VARIABLES
    live,      \* the set of allocated (not yet destroyed) nodes
    _value,    \* Node::_value, per node slot
    _back,     \* Node::_back,  per node slot (NULL or a node)
    _next,     \* Node::_next,  per node slot (NULL or a node)
    head,      \* List::head, per list
    tail,      \* List::tail, per list
    _len,      \* List::_len, per list
    crashed,   \* the program has executed undefined behaviour
    ops,       \* the number of calls made, where a specification counts them
    last,      \* the last call made and what it returned
    stream     \* the text stream: characters not yet read, failbit, eofbit

heapVars == <<live, _value, _back, _next, head, tail, _len>>
vars == <<live, _value, _back, _next, head, tail, _len, crashed, ops, last,
          stream>>

\* The program state as one record, the form the transformers work on.  ret
\* carries a call's result (a value, a count, or the node a lookup found);
\* hops counts the steps taken along _next and _back by Node::operator+ and
\* Node::operator-.
Cur ==
    [live |-> live, value |-> _value, back |-> _back, next |-> _next,
     head |-> head, tail |-> tail, len |-> _len,
     ub |-> FALSE, fault |-> FALSE, oom |-> FALSE, ret |-> 0, exc |-> FALSE,
     stream |-> stream, ch |-> "", hops |-> 0]

Wrap(n) == n % USIZE_MOD

\* ------------------------------------------------------------ dereference
\* Any access through pointer n.  Nothing more happens in a call once it
\* has dereferenced NULL: every statement below leaves a faulted S as it is.
Touch(S, n) ==
    IF S.fault THEN S
    ELSE IF n = NULL THEN [S EXCEPT !.fault = TRUE]
    ELSE IF n \notin S.live THEN [S EXCEPT !.ub = TRUE]
    ELSE S

\* Assignments to the fields of the list object l and to the result.
setHead(S, l, n) == IF S.fault THEN S ELSE [S EXCEPT !.head[l] = n]

setTail(S, l, n) == IF S.fault THEN S ELSE [S EXCEPT !.tail[l] = n]

setLen(S, l, k) == IF S.fault THEN S ELSE [S EXCEPT !.len[l] = Wrap(k)]

setRet(S, r) == IF S.fault THEN S ELSE [S EXCEPT !.ret = r]

\* ------------------------------------------------------------------- Node
NewId(S) == CHOOSE n \in Nodes \ S.live : \A m \in Nodes \ S.live : n <= m

\* new Node<T>(value, back, next); the new node's address is left in ret.
NewNode(S, v, b, x) ==
    IF S.fault THEN S
    ELSE IF Nodes \ S.live = {} THEN [S EXCEPT !.oom = TRUE, !.fault = TRUE]
    ELSE [S EXCEPT !.live = @ \cup {NewId(S)}, !.value[NewId(S)] = v,
                   !.back[NewId(S)] = b, !.next[NewId(S)] = x,
                   !.ret = NewId(S)]

\* delete node.  Nothing may read the destroyed node's storage before new
\* hands it out again, initialised: the slot is blanked.
DeleteNode(S, n) ==
    IF S.fault \/ n = NULL THEN S
    ELSE IF n \notin S.live THEN [S EXCEPT !.ub = TRUE]
    ELSE [S EXCEPT !.live = @ \ {n}, !.value[n] = 0, !.back[n] = NULL,
                   !.next[n] = NULL]

\* Node::setBack
setBack(S, n, m) ==
    IF S.fault \/ n = NULL THEN Touch(S, n)
    ELSE [Touch(S, n) EXCEPT !.back[n] = m]

\* Node::setNext
setNext(S, n, m) ==
    IF S.fault \/ n = NULL THEN Touch(S, n)
    ELSE [Touch(S, n) EXCEPT !.next[n] = m]

\* Node::reverse
nodeReverse(S, n) ==
    IF S.fault \/ n = NULL THEN Touch(S, n)
    ELSE [Touch(S, n) EXCEPT !.next[n] = S.back[n], !.back[n] = S.next[n]]

\* Node::unlink, lines 301-303
unlinkBack(S, n) ==
    IF S.back[n] # NULL THEN setNext(S, S.back[n], S.next[n]) ELSE S

\* Faulty variant of lines 304-306: the next neighbour keeps its previous
\* link.
unlinkNextKeep(S, n) == S

\* Node::unlink, lines 304-306
unlinkNext(S, n) ==
    IF S.next[n] # NULL THEN setBack(S, S.next[n], S.back[n]) ELSE S

\* Node::unlink
unlink(S, n) ==
    setNext(setBack(unlinkNext(unlinkBack(Touch(S, n), n), n), n, NULL),
            n, NULL)

\* Faulty variant of lines 211-217: the former next keeps its previous link.
linkNextTailNoBack(S, n, m) ==
    IF S.next[n] # NULL
    THEN setNext(setBack(setNext(S, m, S.next[n]), m, n), n, m)
    ELSE setNext(setBack(S, m, n), n, m)

\* Node::linkNext, lines 211-217, other already unlinked
linkNextTail(S, n, m) ==
    IF S.next[n] # NULL
    THEN setNext(setBack(setBack(setNext(S, m, S.next[n]), S.next[n], m),
                         m, n), n, m)
    ELSE setNext(setBack(S, m, n), n, m)

\* Node::linkNext
linkNext(S, n, m) ==
    IF S.fault \/ m = NULL \/ m = n THEN S
    ELSE linkNextTail(Touch(unlink(S, m), n), n, m)

\* Node::linkBack, lines 267-273, other already unlinked
linkBackTail(S, n, m) ==
    IF S.back[n] # NULL
    THEN setBack(setNext(setNext(setBack(S, m, S.back[n]), S.back[n], m),
                         m, n), n, m)
    ELSE setBack(setNext(S, m, n), n, m)

\* Node::linkBack
linkBack(S, n, m) ==
    IF S.fault \/ m = NULL \/ m = n THEN S
    ELSE linkBackTail(Touch(unlink(S, m), n), n, m)

\* Node::operator+ : at hops along _next; the node reached is left in ret.
RECURSIVE operatorPlus(_, _, _)
operatorPlus(S, it, at) ==
    IF S.fault THEN S
    ELSE IF at = 0 THEN setRet(S, it)
    ELSE operatorPlus([Touch(S, it) EXCEPT !.hops = @ + 1], S.next[it],
                      at - 1)

\* Node::operator- : at hops along _back; the node reached is left in ret.
RECURSIVE operatorMinus(_, _, _)
operatorMinus(S, it, at) ==
    IF S.fault THEN S
    ELSE IF at = 0 THEN setRet(S, it)
    ELSE operatorMinus([Touch(S, it) EXCEPT !.hops = @ + 1], S.back[it],
                       at - 1)

\* ------------------------------------------------------------------- List
\* Faulty variant of lines 596-603: the tail is not set on an empty list.
pushFrontLinkNoTail(S, l) ==
    setRet(setLen(setHead(IF S.head[l] # NULL
                          THEN setBack(S, S.head[l], S.ret)
                          ELSE S,
                          l, S.ret),
                  l, S.len[l] + 1),
           0)

\* List::pushFront, lines 596-603, the new node in S.ret
pushFrontLink(S, l) ==
    setRet(setLen(setHead(IF S.head[l] # NULL
                          THEN setBack(S, S.head[l], S.ret)
                          ELSE setTail(S, l, S.ret),
                          l, S.ret),
                  l, S.len[l] + 1),
           0)

\* List::pushFront
pushFront(S, l, value) ==
    pushFrontLink(NewNode(S, value, NULL, S.head[l]), l)

\* List::pushBack, lines 642-649, the new node in S.ret
pushBackLink(S, l) ==
    setRet(setLen(setTail(IF S.tail[l] # NULL
                          THEN setNext(S, S.tail[l], S.ret)
                          ELSE setHead(S, l, S.ret),
                          l, S.ret),
                  l, S.len[l] + 1),
           0)

\* List::pushBack
pushBack(S, l, value) ==
    pushBackLink(NewNode(S, value, S.tail[l], NULL), l)

\* List::popFront, lines 622-624
popFrontTail(S, l) == IF S.head[l] = NULL THEN setTail(S, l, NULL) ELSE S

\* List::popFront, lines 621-624
popFrontHead(S, l, node) == popFrontTail(setHead(S, l, S.next[node]), l)

\* List::popFront
popFront(S, l) ==
    setRet(DeleteNode(unlink(popFrontHead(setLen(Touch(S, S.head[l]),
                                                 l, S.len[l] - 1),
                                          l, S.head[l]),
                             S.head[l]),
                      S.head[l]),
           S.value[S.head[l]])

\* Faulty variant of lines 668-670: the head is kept when the tail is gone.
popBackHeadKeep(S, l) == S

\* List::popBack, lines 668-670
popBackHead(S, l) == IF S.tail[l] = NULL THEN setHead(S, l, NULL) ELSE S

\* List::popBack, lines 667-670
popBackTail(S, l, node) == popBackHead(setTail(S, l, S.back[node]), l)

\* List::popBack
popBack(S, l) ==
    setRet(DeleteNode(unlink(popBackTail(setLen(Touch(S, S.tail[l]),
                                                l, S.len[l] - 1),
                                         l, S.tail[l]),
                             S.tail[l]),
                      S.tail[l]),
           S.value[S.tail[l]])

\* Faulty variant of List::atNode: one hop too few when retreating from tail.
atNodeShortRetreat(S, l, at) ==
    IF S.fault THEN S
    ELSE IF at = 0 THEN setRet(S, S.head[l])
    ELSE IF at = Wrap(S.len[l] - 1) THEN setRet(S, S.tail[l])
    ELSE IF at <= S.len[l] \div 2
         THEN operatorPlus(Touch(S, S.head[l]), S.head[l], at)
         ELSE operatorMinus(Touch(S, S.tail[l]), S.tail[l],
                            Wrap(S.len[l] - at - 2))

\* Faulty variant of List::atNode: the walk always starts at head.
atNodeAlwaysAdvance(S, l, at) ==
    IF S.fault THEN S
    ELSE IF at = 0 THEN setRet(S, S.head[l])
    ELSE operatorPlus(Touch(S, S.head[l]), S.head[l], at)

\* List::atNode : the node at index at is left in ret.
atNode(S, l, at) ==
    IF S.fault THEN S
    ELSE IF at = 0 THEN setRet(S, S.head[l])
    ELSE IF at = Wrap(S.len[l] - 1) THEN setRet(S, S.tail[l])
    ELSE IF at <= S.len[l] \div 2
         THEN operatorPlus(Touch(S, S.head[l]), S.head[l], at)
         ELSE operatorMinus(Touch(S, S.tail[l]), S.tail[l],
                            Wrap(S.len[l] - at - 1))

\* node->value() of the node in S.ret
nodeValue(S) == setRet(Touch(S, S.ret), S.value[S.ret])

\* Faulty variant of List::at: out of range yields a default, nothing thrown.
atNoThrow(S, l, at_) ==
    IF at_ >= S.len[l] THEN setRet(S, 0)
    ELSE nodeValue(atNode(S, l, at_))

\* List::at : exc is set when std::out_of_range is thrown.
at(S, l, at_) ==
    IF at_ >= S.len[l] THEN [S EXCEPT !.exc = TRUE]
    ELSE nodeValue(atNode(S, l, at_))

\* Faulty variant of lines 1655-1661: the new node always goes in front.
insertLinkAlwaysBack(S, l, node, backwarded) ==
    setRet(setLen(linkBack(S, node, S.ret), l, S.len[l] + 1), 0)

\* List::insert, lines 1655-1661, the new node in S.ret
insertLink(S, l, node, backwarded) ==
    setRet(setLen(IF backwarded THEN linkBack(S, node, S.ret)
                  ELSE linkNext(S, node, S.ret),
                  l, S.len[l] + 1),
           0)

\* List::insert, lines 1654-1661, the node at index at in S.ret
insertAt(S, l, value, backwarded) ==
    insertLink(NewNode(S, value, NULL, NULL), l, S.ret, backwarded)

\* Faulty variant of List::insert: forward at the last index is not routed
\* to pushBack.
insertNoLastRoute(S, l, value, at_, backwarded) ==
    IF at_ = 0 /\ backwarded THEN pushFront(S, l, value)
    ELSE IF at_ >= S.len[l] THEN pushBack(S, l, value)
    ELSE insertAt(atNode(S, l, at_), l, value, backwarded)

\* List::insert
insert(S, l, value, at_, backwarded) ==
    IF at_ = 0 /\ backwarded THEN pushFront(S, l, value)
    ELSE IF at_ >= S.len[l] THEN pushBack(S, l, value)
    ELSE IF at_ = Wrap(S.len[l] - 1) /\ ~backwarded THEN pushBack(S, l, value)
    ELSE insertAt(atNode(S, l, at_), l, value, backwarded)

\* Faulty variant of List::insertForward: inserts backward.
insertForwardAsBackward(S, l, value, at_) == insert(S, l, value, at_, TRUE)

\* List::insertForward
insertForward(S, l, value, at_) == insert(S, l, value, at_, FALSE)

\* List::insertBackward
insertBackward(S, l, value, at_) == insert(S, l, value, at_, TRUE)

\* Faulty variant of lines 834-841: the length is not decremented.
removeAtKeepLen(S, l) ==
    setRet(DeleteNode(unlink(Touch(S, S.ret), S.ret), S.ret),
           S.value[S.ret])

\* List::remove, lines 834-841, the node at index at in S.ret
removeAt(S, l) ==
    setRet(DeleteNode(unlink(setLen(Touch(S, S.ret), l, S.len[l] - 1),
                             S.ret),
                      S.ret),
           S.value[S.ret])

\* List::remove.  The first two branches end in "return;" although a T is
\* returned: what the caller receives there is indeterminate (garbage).
remove(S, l, at_, garbage) ==
    IF at_ = 0 THEN setRet(popFront(S, l), garbage)
    ELSE IF at_ >= Wrap(S.len[l] - 1) THEN setRet(popBack(S, l), garbage)
    ELSE removeAt(atNode(S, l, at_), l)

\* Faulty variant of lines 907-909: the head is left on the removed node.
retainHeadKeep(S, l, it) == S

\* List::retainIf, lines 907-909
retainHead(S, l, it) ==
    IF it = S.head[l] THEN setHead(S, l, S.next[it]) ELSE S

\* List::retainIf, lines 910-912
retainTail(S, l, it) ==
    IF it = S.tail[l] THEN setTail(S, l, S.next[it]) ELSE S

\* List::retainIf, lines 904-916: the node it fails the filter
retainDrop(S, l, it) ==
    DeleteNode(unlink(retainTail(retainHead(setLen(S, l, S.len[l] - 1),
                                            l, it), l, it), it), it)

\* The loop of List::retainIf; filter holds of the values in keep.
RECURSIVE retainLoop(_, _, _, _, _)
retainLoop(S, l, keep, it, fuel) ==
    IF S.fault \/ it = NULL THEN S
    ELSE IF fuel = 0 THEN [S EXCEPT !.fault = TRUE]
    ELSE IF S.value[it] \in keep
         THEN retainLoop(Touch(S, it), l, keep, S.next[it], fuel - 1)
         ELSE retainLoop(retainDrop(Touch(S, it), l, it), l, keep,
                         S.next[it], fuel - 1)

\* Faulty variant of line 920: the new length is returned.
retainCountLeft(S, oldLen, l) == setRet(S, S.len[l])

\* List::retainIf, line 920
retainCount(S, oldLen, l) == setRet(S, Wrap(oldLen - S.len[l]))

\* List::retainIf : returns the number of elements removed.
retainIf(S, l, keep) ==
    retainCount(retainLoop(S, l, keep, S.head[l], Fuel), S.len[l], l)

\* The loop of List::removeIf; filter holds of the values in drop.
RECURSIVE removeLoop(_, _, _, _, _)
removeLoop(S, l, drop, it, fuel) ==
    IF S.fault \/ it = NULL THEN S
    ELSE IF fuel = 0 THEN [S EXCEPT !.fault = TRUE]
    ELSE IF S.value[it] \in drop
         THEN removeLoop(DeleteNode(unlink(setLen(Touch(S, it), l,
                                                  S.len[l] - 1), it), it),
                         l, drop, S.next[it], fuel - 1)
         ELSE removeLoop(Touch(S, it), l, drop, S.next[it], fuel - 1)

\* List::removeIf, line 984
removeCount(S, oldLen, l) == setRet(S, Wrap(oldLen - S.len[l]))

\* List::removeIf : returns the number of elements removed.
removeIf(S, l, drop) ==
    removeCount(removeLoop(S, l, drop, S.head[l], Fuel), S.len[l], l)

\* List::swap
swap(S, l, other) ==
    IF S.fault \/ l = other THEN S
    ELSE [S EXCEPT !.len[l] = S.len[other], !.len[other] = S.len[l],
                   !.head[l] = S.head[other], !.head[other] = S.head[l],
                   !.tail[l] = S.tail[other], !.tail[other] = S.tail[l]]

\* List::isEmpty, which append and reverse call (lines 997, 1071) and the
\* sources do not define: true of a list without elements, as List::empty.
isEmpty(S, l) == S.len[l] = 0

\* List::append, lines 1012-1014
appendReset(S, other) ==
    setTail(setHead(setLen(S, other, 0), other, NULL), other, NULL)

\* Faulty variant of lines 1007-1010: the tail is not moved to other's tail.
appendLinkKeepTail(S, l, other) ==
    setBack(setNext(S, S.tail[l], S.head[other]), S.head[other], S.tail[l])

\* List::append, lines 1007-1010
appendLink(S, l, other) ==
    setTail(setBack(setNext(S, S.tail[l], S.head[other]),
                    S.head[other], S.tail[l]),
            l, S.tail[other])

\* List::append
append(S, l, other) ==
    IF isEmpty(S, other) THEN S
    ELSE IF S.len[l] = 0 THEN swap(S, l, other)
    ELSE appendReset(appendLink(setLen(S, l, S.len[l] + S.len[other]),
                                l, other),
                     other)

\* List::sliceOff, lines 1046-1048
sliceBack(S, backNode, nextNode) ==
    IF backNode # NULL THEN setNext(S, backNode, nextNode) ELSE S

\* List::sliceOff, lines 1049-1051
sliceNext(S, backNode, nextNode) ==
    IF nextNode # NULL THEN setBack(S, nextNode, backNode) ELSE S

\* List::sliceOff, lines 1046-1054
sliceDetach(S, startNode, endNode, backNode, nextNode) ==
    setNext(setBack(sliceNext(sliceBack(S, backNode, nextNode),
                              backNode, nextNode),
                    startNode, NULL),
            endNode, NULL)

\* List::sliceOff, lines 1043-1054
sliceCut(S, startNode, endNode) ==
    sliceDetach(S, startNode, endNode, S.back[startNode], S.next[endNode])

\* List::sliceOff, lines 1057-1062.  Line 1060 assigns extractedList._end,
\* which is no member of List: extractedList.tail keeps the constructor's
\* NULL.
sliceResult(S, res, k, startNode, endNode) ==
    setRet(setHead(setLen(S, res, k), res, startNode), 0)

\* List::sliceOff, lines 1041-1062, startNode in S.ret
sliceEnd(S, l, res, start, end, startNode) ==
    sliceResult(sliceCut(Touch(Touch(S, startNode), S.ret),
                         startNode, S.ret),
                res, end - start, startNode, S.ret)

\* List::sliceOff, lines 1040-1062
sliceNodes(S, l, res, start, end) ==
    sliceEnd(atNode(S, l, end - 1), l, res, start, end, S.ret)

\* Faulty variant of List::sliceOff: start == end is not taken as empty.
sliceOffStrict(S, l, start, end, res) ==
    IF (IF start >= S.len[l] THEN S.len[l] ELSE start)
         > (IF end > S.len[l] THEN S.len[l] ELSE end)
    THEN S
    ELSE sliceNodes(atNode(S, l, IF start >= S.len[l] THEN S.len[l]
                                 ELSE start),
                    l, res,
                    IF start >= S.len[l] THEN S.len[l] ELSE start,
                    IF end > S.len[l] THEN S.len[l] ELSE end)

\* List::sliceOff, its result constructed in the list object res (a new,
\* empty List).  Neither _len, head nor tail of *this is written.
sliceOff(S, l, start, end, res) ==
    IF (IF start >= S.len[l] THEN S.len[l] ELSE start)
         >= (IF end > S.len[l] THEN S.len[l] ELSE end)
    THEN S
    ELSE sliceNodes(atNode(S, l, IF start >= S.len[l] THEN S.len[l]
                                 ELSE start),
                    l, res,
                    IF start >= S.len[l] THEN S.len[l] ELSE start,
                    IF end > S.len[l] THEN S.len[l] ELSE end)

\* The loop of List::reverse: once a node is reversed, its back acts as next.
RECURSIVE reverseLoop(_, _, _)
reverseLoop(S, it, fuel) ==
    IF S.fault \/ it = NULL THEN S
    ELSE IF fuel = 0 THEN [S EXCEPT !.fault = TRUE]
    ELSE reverseLoop(nodeReverse(S, it), S.next[it], fuel - 1)

\* Faulty variant of line 1080: head and tail are not exchanged.
reverseEndsKeep(S, l) == S

\* Faulty variant of line 1080: the tail does not receive the old head.
reverseEndsHeadOnly(S, l) == setHead(S, l, S.tail[l])

\* List::reverse, line 1080
reverseEnds(S, l) == setTail(setHead(S, l, S.tail[l]), l, S.head[l])

\* List::reverse
reverse(S, l) ==
    IF isEmpty(S, l) THEN S
    ELSE reverseEnds(reverseLoop(S, S.head[l], Fuel), l)

\* The loop of List::clear
RECURSIVE clearLoop(_, _, _)
clearLoop(S, it, fuel) ==
    IF S.fault \/ it = NULL THEN S
    ELSE IF fuel = 0 THEN [S EXCEPT !.fault = TRUE]
    ELSE clearLoop(DeleteNode(Touch(S, it), it), S.next[it], fuel - 1)

\* Faulty variant of List::clear: head and tail are not reset.
clearKeepEnds(S, l) == setLen(clearLoop(S, S.head[l], Fuel), l, 0)

\* List::clear
clear(S, l) ==
    setTail(setHead(setLen(clearLoop(S, S.head[l], Fuel), l, 0), l, NULL),
            l, NULL)

\* Faulty variant of assignLink: the new node gets no previous link.
assignLinkNoBack(S, l, previous) ==
    IF previous # NULL
    THEN setNext(S, previous, S.ret)
    ELSE setHead(S, l, S.ret)

\* List::operator=, lines 1460-1465, the new node in S.ret
assignLink(S, l, previous) ==
    IF previous # NULL
    THEN setNext(setBack(S, S.ret, previous), previous, S.ret)
    ELSE setHead(S, l, S.ret)

RECURSIVE assignLoop(_, _, _, _, _)

\* List::operator=, lines 1457 and 1467: on to the next node of other
assignNext(S, l, it, fuel) == assignLoop(S, l, S.next[it], S.ret, fuel - 1)

\* The loop of List::operator=
assignLoop(S, l, it, previous, fuel) ==
    IF S.fault THEN S
    ELSE IF it = NULL THEN setTail(S, l, previous)
    ELSE IF fuel = 0 THEN [S EXCEPT !.fault = TRUE]
    ELSE assignNext(assignLink(NewNode(Touch(S, it), S.value[it],
                                       NULL, NULL), l, previous),
                    l, it, fuel)

\* List::operator=, lines 1453-1470
assignCopy(S, l, other) ==
    setRet(assignLoop(setLen(S, l, S.len[other]), l, S.head[other], NULL,
                      Fuel), 0)

\* List::operator=
assign(S, l, other) ==
    IF l = other THEN S ELSE assignCopy(clear(S, l), l, other)

\* List::List(const List<T>&), constructing the list object res.
copyConstruct(S, res, other) ==
    assign(setLen(setTail(setHead(S, res, NULL), res, NULL), res, 0), res,
           other)

\* The loops of List::operator+ and List::operator+= : the values from node
\* it on are pushed to the back of res.  With pushed TRUE S is the state
\* after the value of it was pushed, in which it->next() is read.
RECURSIVE addLoop(_, _, _, _, _)
addLoop(S, res, it, pushed, fuel) ==
    IF S.fault THEN S
    ELSE IF pushed THEN addLoop(S, res, S.next[it], FALSE, fuel)
    ELSE IF it = NULL THEN S
    ELSE IF fuel = 0 THEN [S EXCEPT !.fault = TRUE]
    ELSE addLoop(pushBack(Touch(S, it), res, S.value[it]), res, it, TRUE,
                 fuel - 1)

\* Faulty variant of List::operator+ : other's values come first.
operatorAddSwapped(S, l, other, res) ==
    setRet(addLoop(addLoop(S, res, S.head[other], FALSE, Fuel), res,
                   S.head[l], FALSE, Fuel), 0)

\* List::operator+, its result newList constructed in the list object res.
operatorAdd(S, l, other, res) ==
    setRet(addLoop(addLoop(S, res, S.head[l], FALSE, Fuel), res,
                   S.head[other], FALSE, Fuel), 0)

\* NO_POS: -1 converted to usize.
NO_POS == USIZE_MOD - 1

\* The loop of List::find, from node it, which has index at.
RECURSIVE findLoop(_, _, _, _, _)
findLoop(S, it, value, at_, fuel) ==
    IF S.fault THEN S
    ELSE IF it = NULL THEN setRet(S, NO_POS)
    ELSE IF fuel = 0 THEN [S EXCEPT !.fault = TRUE]
    ELSE IF Touch(S, it).ub THEN Touch(S, it)
    ELSE IF S.value[it] = value THEN setRet(S, at_)
    ELSE findLoop(S, S.next[it], value, Wrap(at_ + 1), fuel - 1)

\* Faulty variant of List::find: the index counts from the node the search
\* starts at.
findCountFromStart(S, l, value, skip) ==
    IF skip >= S.len[l] THEN setRet(S, NO_POS)
    ELSE findLoop(operatorPlus(Touch(S, S.head[l]), S.head[l], skip),
                  operatorPlus(Touch(S, S.head[l]), S.head[l], skip).ret,
                  value, 0, Fuel)

\* List::find
find(S, l, value, skip) ==
    IF skip >= S.len[l] THEN setRet(S, NO_POS)
    ELSE findLoop(operatorPlus(Touch(S, S.head[l]), S.head[l], skip),
                  operatorPlus(Touch(S, S.head[l]), S.head[l], skip).ret,
                  value, skip, Fuel)

\* The loop of List::rfind, from node it, which is taken to have index at_.
RECURSIVE rfindLoop(_, _, _, _, _)
rfindLoop(S, it, value, at_, fuel) ==
    IF S.fault THEN S
    ELSE IF it = NULL THEN setRet(S, NO_POS)
    ELSE IF fuel = 0 THEN [S EXCEPT !.fault = TRUE]
    ELSE IF Touch(S, it).ub THEN Touch(S, it)
    ELSE IF S.value[it] = value THEN setRet(S, at_)
    ELSE rfindLoop(S, S.back[it], value, Wrap(at_ - 1), fuel - 1)

\* List::rfind.  Line 773 starts the walk at this->tail - skip, which is
\* arithmetic on the pointer tail, not Node::operator- : for skip > 0 the
\* result lies skip * sizeof(Node) below the tail node.  g is what lies
\* there: another node alive, from which the walk goes on, or else memory
\* that is no node, and the behaviour is undefined.
rfind(S, l, value, skip, g) ==
    IF skip >= S.len[l] THEN setRet(S, NO_POS)
    ELSE IF skip > 0 /\ (g = S.tail[l] \/ g \notin S.live)
    THEN [S EXCEPT !.ub = TRUE]
    ELSE rfindLoop(S, IF skip = 0 THEN S.tail[l] ELSE g, value,
                   Wrap(S.len[l] - skip - 1), Fuel)

\* The loop of List::findAll, from node it, which has index at_: the indices
\* of the nodes holding value are pushed to the back of res.
RECURSIVE findAllLoop(_, _, _, _, _, _)
findAllLoop(S, res, it, value, at_, fuel) ==
    IF S.fault \/ it = NULL THEN S
    ELSE IF fuel = 0 THEN [S EXCEPT !.fault = TRUE]
    ELSE IF Touch(S, it).ub THEN Touch(S, it)
    ELSE findAllLoop(IF S.value[it] = value THEN pushBack(S, res, at_)
                     ELSE S,
                     res, S.next[it], value, Wrap(at_ + 1), fuel - 1)

\* Faulty variant of List::findAll: the indices count from 1.
findAllFromOne(S, l, value, res) ==
    setRet(findAllLoop(S, res, S.head[l], value, 1, Fuel), 0)

\* List::findAll, its result indices constructed in the list object res.
findAll(S, l, value, res) ==
    setRet(findAllLoop(S, res, S.head[l], value, 0, Fuel), 0)

\* ------------------------------------------------------------- text streams
\* The decimal digits, as characters of a stream.
DigitOf ==
    [c \in {"0", "1", "2", "3", "4", "5", "6", "7", "8", "9"} |->
       CHOOSE d \in 0..9 :
          <<"0", "1", "2", "3", "4", "5", "6", "7", "8", "9">>[d + 1] = c]

\* out << value for an int: its decimal digits.
RECURSIVE Digits(_)
Digits(v) ==
    IF v < 10 THEN <<CHOOSE c \in DOMAIN DigitOf : DigitOf[c] = v>>
    ELSE Append(Digits(v \div 10),
                CHOOSE c \in DOMAIN DigitOf : DigitOf[c] = v % 10)

\* operator<<, lines 1489-1491: ", " and the value of each node from it on.
RECURSIVE writeLoop(_, _, _)
writeLoop(S, it, fuel) ==
    IF S.fault \/ it = NULL THEN S
    ELSE IF fuel = 0 THEN [S EXCEPT !.fault = TRUE]
    ELSE IF Touch(S, it).ub THEN Touch(S, it)
    ELSE writeLoop([S EXCEPT !.stream.text =
                                @ \o <<",", " ">> \o Digits(S.value[it])],
                   S.next[it], fuel - 1)

\* operator<<(std::ostream&, const List<T>&)
write(S, l) ==
    IF S.len[l] = 0 THEN [S EXCEPT !.stream.text = @ \o <<"[", "]">>]
    ELSE IF Touch(S, S.head[l]).fault \/ Touch(S, S.head[l]).ub
    THEN Touch(S, S.head[l])
    ELSE [writeLoop([S EXCEPT !.stream.text =
                                 @ \o <<"[">> \o Digits(S.value[S.head[l]])],
                    S.next[S.head[l]], Fuel)
            EXCEPT !.stream.text = @ \o <<"]">>]

\* in >> ch for a char: a stream that is not good fails; white space is
\* skipped; at the end of the text eofbit and failbit are set and ch is
\* left as it was.
RECURSIVE getCh(_)
getCh(S) ==
    IF S.fault THEN S
    ELSE IF S.stream.fail \/ S.stream.eof
    THEN [S EXCEPT !.stream.fail = TRUE]
    ELSE IF S.stream.text = <<>>
    THEN [S EXCEPT !.stream.fail = TRUE, !.stream.eof = TRUE]
    ELSE IF Head(S.stream.text) = " "
    THEN getCh([S EXCEPT !.stream.text = Tail(@)])
    ELSE [S EXCEPT !.ch = Head(S.stream.text), !.stream.text = Tail(@)]

\* in >> value for an int, the value left in ret: a stream that is not good
\* fails; white space is skipped; no digit is a failure (the value is 0 and
\* the character stays unread); the digits are read up to the first other
\* character, and reaching the end of the text while reading sets eofbit.
\* started tells whether a digit has been seen.
RECURSIVE getValue(_, _)
getValue(S, started) ==
    IF S.fault THEN S
    ELSE IF started
    THEN IF S.stream.text = <<>> THEN [S EXCEPT !.stream.eof = TRUE]
         ELSE IF Head(S.stream.text) \notin DOMAIN DigitOf THEN S
         ELSE getValue([S EXCEPT
                          !.ret = 10 * @ + DigitOf[Head(S.stream.text)],
                          !.stream.text = Tail(@)], TRUE)
    ELSE IF S.stream.fail \/ S.stream.eof
    THEN [S EXCEPT !.stream.fail = TRUE]
    ELSE IF S.stream.text = <<>>
    THEN [S EXCEPT !.stream.fail = TRUE, !.stream.eof = TRUE]
    ELSE IF Head(S.stream.text) = " "
    THEN getValue([S EXCEPT !.stream.text = Tail(@)], FALSE)
    ELSE IF Head(S.stream.text) \notin DOMAIN DigitOf
    THEN [S EXCEPT !.stream.fail = TRUE, !.ret = 0]
    ELSE getValue(setRet(S, 0), TRUE)

\* operator>>, lines 1522-1529.  With parsed FALSE S is the state at the
\* loop's test; with parsed TRUE it is the state after in >> value, from
\* which the value is pushed if the stream is good and the next character
\* is read.
RECURSIVE readLoop(_, _, _, _)
readLoop(S, l, parsed, fuel) ==
    IF S.fault THEN S
    ELSE IF parsed
    THEN readLoop(getCh(IF ~S.stream.fail /\ ~S.stream.eof
                        THEN pushBack(S, l, S.ret)
                        ELSE S),
                  l, FALSE, fuel)
    ELSE IF S.ch = "," /\ ~S.stream.fail /\ ~S.stream.eof
    THEN IF fuel = 0 THEN [S EXCEPT !.fault = TRUE]
         ELSE readLoop(getValue(S, FALSE), l, TRUE, fuel - 1)
    ELSE S

\* Faulty variant of operator>>: a first character other than '[' does not
\* set failbit.
RECURSIVE readNoOpenFail(_, _, _)
readNoOpenFail(S, l, step) ==
    IF step = 1
    THEN (IF S.stream.fail \/ S.ch # "["
          THEN S
          ELSE readNoOpenFail(getCh(S), l, 2))
    ELSE IF step = 2
    THEN (IF S.stream.fail \/ S.ch = "]" THEN S
          ELSE readNoOpenFail(getCh(readLoop(S, l, FALSE, Fuel)), l, 3))
    ELSE IF S.stream.fail \/ S.ch # "["
    THEN setRet([S EXCEPT !.stream.fail = TRUE], 0)
    ELSE setRet(S, 0)

\* operator>>(std::istream&, List<T>&): S is the state after the in >> ch
\* of line 1510 (step 1), of line 1517 (step 2) and of line 1531 (step 3).
RECURSIVE read(_, _, _)
read(S, l, step) ==
    IF step = 1
    THEN (IF S.stream.fail \/ S.ch # "["
          THEN setRet([S EXCEPT !.stream.fail = TRUE], 0)
          ELSE read(getCh(S), l, 2))
    ELSE IF step = 2
    THEN (IF S.stream.fail \/ S.ch = "]" THEN setRet(S, 0)
          ELSE read(getCh(readLoop(S, l, FALSE, Fuel)), l, 3))
    ELSE IF S.stream.fail \/ S.ch # "["
    THEN setRet([S EXCEPT !.stream.fail = TRUE], 0)
    ELSE setRet(S, 0)

\* The loop of List::operator== : ret is 1 for true and 0 for false.
RECURSIVE eqLoop(_, _, _, _)
eqLoop(S, it, otherIt, fuel) ==
    IF S.fault THEN S
    ELSE IF it = NULL THEN setRet(S, 1)
    ELSE IF fuel = 0 THEN [S EXCEPT !.fault = TRUE]
    ELSE IF Touch(Touch(S, it), otherIt).fault
              \/ Touch(Touch(S, it), otherIt).ub
    THEN Touch(Touch(S, it), otherIt)
    ELSE IF S.value[it] # S.value[otherIt] THEN setRet(S, 0)
    ELSE eqLoop(S, S.next[it], S.next[otherIt], fuel - 1)

\* Faulty variant of List::operator== : the lengths are not compared.
operatorEqNoLen(S, l, other) ==
    IF l = other THEN setRet(S, 1)
    ELSE eqLoop(S, S.head[l], S.head[other], Fuel)

\* List::operator==
operatorEq(S, l, other) ==
    IF l = other THEN setRet(S, 1)
    ELSE IF S.len[l] # S.len[other] THEN setRet(S, 0)
    ELSE eqLoop(S, S.head[l], S.head[other], Fuel)

\* ------------------------------------------------------------------ calls
\* One call of a List method: the receiver l, the other list o, and the
\* arguments the method takes (the unused ones are left at their defaults).
Call(op, l, o, v, at_, to, P, g) ==
    [op |-> op, l |-> l, o |-> o, v |-> v, at |-> at_, to |-> to, P |-> P,
     g |-> g, ret |-> 0, exc |-> FALSE, log |-> <<>>, hops |-> 0]

\* The state the call c leaves when run on the current state.
Exec(c) ==
    CASE c.op = "pushFront"      -> pushFront(Cur, c.l, c.v)
      [] c.op = "pushBack"       -> pushBack(Cur, c.l, c.v)
      [] c.op = "popFront"       -> popFront(Cur, c.l)
      [] c.op = "popBack"        -> popBack(Cur, c.l)
      [] c.op = "at"             -> at(Cur, c.l, c.at)
      [] c.op = "insertForward"  -> insertForward(Cur, c.l, c.v, c.at)
      [] c.op = "insertBackward" -> insertBackward(Cur, c.l, c.v, c.at)
      [] c.op = "remove"         -> remove(Cur, c.l, c.at, c.g)
      [] c.op = "retainIf"       -> retainIf(Cur, c.l, c.P)
      [] c.op = "removeIf"       -> removeIf(Cur, c.l, c.P)
      [] c.op = "append"         -> append(Cur, c.l, c.o)
      [] c.op = "swap"           -> swap(Cur, c.l, c.o)
      [] c.op = "sliceOff"       -> sliceOff(Cur, c.l, c.at, c.to, c.o)
      [] c.op = "reverse"        -> reverse(Cur, c.l)
      [] c.op = "clear"          -> clear(Cur, c.l)
      [] c.op = "assign"         -> assign(Cur, c.l, c.o)
      [] c.op = "find"           -> find(Cur, c.l, c.v, c.at)
      [] c.op = "rfind"          -> rfind(Cur, c.l, c.v, c.at, c.g)
      [] c.op = "findAll"        -> findAll(Cur, c.l, c.v, "r")
      [] c.op = "operator=="     -> operatorEq(Cur, c.l, c.o)
      [] c.op = "copy"           -> copyConstruct(Cur, c.l, c.o)
      [] c.op = "operator+"      -> operatorAdd(Cur, c.l, c.o, "r")

\* How a specification runs the calls: obs tells whether last records the
\* call, cap bounds the number of nodes alive at once and the stored lengths
\* (which the code can drive past the number of nodes a list holds), and
\* run, when not 0, bounds the number of calls of a run.  Paired leaves room
\* for a list of MaxSeq - 1 nodes next to its copy.  hist, when not 0, makes
\* last keep the log of the calls made so far and what each returned, for
\* runs of at most hist calls.
Quiet == [obs |-> FALSE, cap |-> MaxSeq, run |-> MaxOps, hist |-> 0]
Seen  == [obs |-> TRUE, cap |-> MaxSeq, run |-> 0, hist |-> 0]
Built == [obs |-> TRUE, cap |-> MaxNodes, run |-> 0, hist |-> 0]
Paired == [obs |-> TRUE, cap |-> MaxSeq + 1, run |-> 0, hist |-> 0]
Logged == [obs |-> TRUE, cap |-> MaxSeq, run |-> 0, hist |-> 2 * MaxSeq]

\* The call c runs to completion in state T, which becomes the program state.
Commit(c, T, m) ==
    /\ ~T.fault /\ ~T.ub
    /\ Cardinality(T.live) <= m.cap
    /\ \A l \in Objects : T.len[l] <= m.cap
    /\ live' = T.live
    /\ _value' = T.value
    /\ _back' = T.back
    /\ _next' = T.next
    /\ head' = T.head
    /\ tail' = T.tail
    /\ _len' = T.len
    /\ m.run # 0 => ops < m.run
    /\ ops' = IF m.run # 0 THEN ops + 1 ELSE ops
    /\ m.hist # 0 => Len(last.log) < m.hist
    /\ last' = IF m.obs
               THEN [c EXCEPT !.ret = T.ret, !.exc = T.exc, !.hops = T.hops,
                              !.log = IF m.hist # 0
                                      THEN Append(last.log,
                                                  [op |-> c.op, v |-> c.v,
                                                   ret |-> T.ret])
                                      ELSE <<>>]
               ELSE last
    /\ stream' = T.stream
    /\ UNCHANGED crashed

\* ---------------------------------------------------------------- actions
PushFront(l, m) ==
    \E v \in Values :
        /\ ~crashed
        /\ Commit(Call("pushFront", l, l, v, 0, 0, {}, 0),
                  pushFront(Cur, l, v), m)

PushBack(l, m) ==
    \E v \in Values :
        /\ ~crashed
        /\ Commit(Call("pushBack", l, l, v, 0, 0, {}, 0),
                  pushBack(Cur, l, v), m)

PopFront(l, m) ==
    /\ ~crashed
    /\ Commit(Call("popFront", l, l, 0, 0, 0, {}, 0), popFront(Cur, l), m)

PopBack(l, m) ==
    /\ ~crashed
    /\ Commit(Call("popBack", l, l, 0, 0, 0, {}, 0), popBack(Cur, l), m)

At(l, m) ==
    \E i \in Indices :
        /\ ~crashed
        /\ Commit(Call("at", l, l, 0, i, 0, {}, 0), at(Cur, l, i), m)

InsertForward(l, m) ==
    \E v \in Values, i \in Indices :
        /\ ~crashed
        /\ Commit(Call("insertForward", l, l, v, i, 0, {}, 0),
                  insertForward(Cur, l, v, i), m)

InsertBackward(l, m) ==
    \E v \in Values, i \in Indices :
        /\ ~crashed
        /\ Commit(Call("insertBackward", l, l, v, i, 0, {}, 0),
                  insertBackward(Cur, l, v, i), m)

Remove(l, m) ==
    \E i \in Indices, g \in Values :
        /\ ~crashed
        /\ Commit(Call("remove", l, l, 0, i, 0, {}, g),
                  remove(Cur, l, i, g), m)

RetainIf(l, m) ==
    \E P \in SUBSET Values :
        /\ ~crashed
        /\ Commit(Call("retainIf", l, l, 0, 0, 0, P, 0),
                  retainIf(Cur, l, P), m)

RemoveIf(l, m) ==
    \E P \in SUBSET Values :
        /\ ~crashed
        /\ Commit(Call("removeIf", l, l, 0, 0, 0, P, 0),
                  removeIf(Cur, l, P), m)

AppendTo(l, m) ==
    \E o \in Lists :
        /\ ~crashed
        /\ Commit(Call("append", l, o, 0, 0, 0, {}, 0), append(Cur, l, o), m)

Swap(l, m) ==
    \E o \in Lists :
        /\ ~crashed
        /\ Commit(Call("swap", l, o, 0, 0, 0, {}, 0), swap(Cur, l, o), m)

\* List<T> o = l.sliceOff(start, end): o is a newly constructed list.
SliceOff(l, m) ==
    \E o \in Lists \ {l}, i \in Indices, j \in Indices :
        /\ ~crashed
        /\ _len[o] = 0 /\ head[o] = NULL /\ tail[o] = NULL
        /\ Commit(Call("sliceOff", l, o, 0, i, j, {}, 0),
                  sliceOff(Cur, l, i, j, o), m)

\* List<T> o = l.sliceOff(start, end); l.append(o); with nothing in between.
SliceOffAppend(l, m) ==
    \E o \in Lists \ {l}, i \in Indices, j \in Indices :
        /\ ~crashed
        /\ _len[o] = 0 /\ head[o] = NULL /\ tail[o] = NULL
        /\ Commit(Call("sliceOff;append", l, o, 0, i, j, {}, 0),
                  append(sliceOff(Cur, l, i, j, o), l, o), m)

Reverse(l, m) ==
    /\ ~crashed
    /\ Commit(Call("reverse", l, l, 0, 0, 0, {}, 0), reverse(Cur, l), m)

\* l.reverse(); l.reverse();
ReverseTwice(l, m) ==
    /\ ~crashed
    /\ Commit(Call("reverse;reverse", l, l, 0, 0, 0, {}, 0),
              reverse(reverse(Cur, l), l), m)

Clear(l, m) ==
    /\ ~crashed
    /\ Commit(Call("clear", l, l, 0, 0, 0, {}, 0), clear(Cur, l), m)

\* List<T> r = l + o: r is a newly constructed list.
Add(l, m) ==
    \E o \in Lists :
        /\ ~crashed
        /\ _len["r"] = 0 /\ head["r"] = NULL /\ tail["r"] = NULL
        /\ Commit(Call("operator+", l, o, 0, 0, 0, {}, 0),
                  operatorAdd(Cur, l, o, "r"), m)

Assign(l, m) ==
    \E o \in Lists :
        /\ ~crashed
        /\ Commit(Call("assign", l, o, 0, 0, 0, {}, 0), assign(Cur, l, o), m)

\* Every call the model can make.
\* Queue::push and Queue::pop on the queue whose container is the list q;
\* the values pushed are 1..MaxSeq, as many as the queue holds at once.
QueuePush(q, m) ==
    \E v \in 1..MaxSeq :
        /\ ~crashed
        /\ Commit(Call("Queue::push", q, q, v, 0, 0, {}, 0),
                  pushBack(Cur, q, v), m)

\* Faulty variant of Queue::pop: the newest element is taken.
QueuePopNewest(q, m) ==
    /\ ~crashed
    /\ Commit(Call("Queue::pop", q, q, 0, 0, 0, {}, 0), popBack(Cur, q), m)

QueuePop(q, m) ==
    /\ ~crashed
    /\ Commit(Call("Queue::pop", q, q, 0, 0, 0, {}, 0), popFront(Cur, q), m)

\* Stack::push, Stack::pop and Stack::top (List::back: tail->value()) on the
\* stack whose container is the list q.
StackPush(q, m) ==
    \E v \in 1..MaxSeq :
        /\ ~crashed
        /\ Commit(Call("Stack::push", q, q, v, 0, 0, {}, 0),
                  pushBack(Cur, q, v), m)

\* Faulty variant of Stack::pop: the oldest element is taken.
StackPopOldest(q, m) ==
    /\ ~crashed
    /\ Commit(Call("Stack::pop", q, q, 0, 0, 0, {}, 0), popFront(Cur, q), m)

StackPop(q, m) ==
    /\ ~crashed
    /\ Commit(Call("Stack::pop", q, q, 0, 0, 0, {}, 0), popBack(Cur, q), m)

StackTop(q, m) ==
    /\ ~crashed
    /\ Commit(Call("Stack::top", q, q, 0, 0, 0, {}, 0),
              nodeValue(setRet(Cur, tail[q])), m)

\* Stack::append, lines 109-110, on two distinct stacks.
StackAppend(q, m) ==
    \E o \in Lists \ {q} :
        /\ ~crashed
        /\ Commit(Call("Stack::append", q, o, 0, 0, 0, {}, 0),
                  append(reverse(Cur, o), q, o), m)

\* in >> l, on the program's stream.
Read(l, m) ==
    /\ ~crashed
    /\ Commit(Call("operator>>", l, l, 0, 0, 0, {}, 0),
              read(getCh(Cur), l, 1), m)

\* std::stringstream ss; ss << l; List<T> r; ss >> r: the stream is one
\* nothing was written to, and r is a newly constructed list.
WriteRead(l, m) ==
    /\ ~crashed
    /\ stream = [text |-> <<>>, fail |-> FALSE, eof |-> FALSE]
    /\ _len["r"] = 0 /\ head["r"] = NULL /\ tail["r"] = NULL
    /\ Commit(Call("operator<<;operator>>", l, "r", 0, 0, 0, {}, 0),
              read(getCh(write(Cur, l)), "r", 1), m)

\* new Node<T>(value): a node linked to nothing.  The value plays no part
\* in linking.
NodeNew(m) ==
    \E v \in {MaxVal} :
        /\ ~crashed
        /\ Commit(Call("Node", "a", "a", v, 0, 0, {}, 0),
                  NewNode(Cur, v, NULL, NULL), m)

\* self->linkNext(other), self->linkBack(other) and self->unlink() on the
\* nodes alive; self is recorded in the field at and other in the field to.
LinkNext(m) ==
    \E self \in live, other \in live \cup {NULL} :
        /\ ~crashed
        /\ Commit(Call("linkNext", "a", "a", 0, self, other, {}, 0),
                  linkNext(Cur, self, other), m)

LinkBack(m) ==
    \E self \in live, other \in live \cup {NULL} :
        /\ ~crashed
        /\ Commit(Call("linkBack", "a", "a", 0, self, other, {}, 0),
                  linkBack(Cur, self, other), m)

Unlink(m) ==
    \E self \in live :
        /\ ~crashed
        /\ Commit(Call("unlink", "a", "a", 0, self, 0, {}, 0),
                  unlink(Cur, self), m)

\* l += o, lines 1389-1393.  When new finds no free node it throws
\* std::bad_alloc, which leaves operator+= with the nodes pushed so far in
\* the list: exc is set.
PlusAssign(l, m) ==
    \E o \in Lists :
        /\ ~crashed
        /\ Commit(Call("operator+=", l, o, 0, 0, 0, {}, 0),
                  IF addLoop(Cur, l, head[o], FALSE, Fuel).oom
                  THEN [addLoop(Cur, l, head[o], FALSE, Fuel)
                          EXCEPT !.fault = FALSE, !.exc = TRUE]
                  ELSE addLoop(Cur, l, head[o], FALSE, Fuel), m)

\* find(v, skip): the argument skip is recorded in the field at.
Find(l, m) ==
    \E v \in Values, skip \in Indices :
        /\ ~crashed
        /\ Commit(Call("find", l, l, v, skip, 0, {}, 0),
                  find(Cur, l, v, skip), m)

\* rfind(v, skip): the argument skip is recorded in the field at, and g is
\* the slot the pointer tail - skip falls on (of no effect, and left 0, when
\* the pointer is not computed or skip is 0).
RFind(l, m) ==
    \E v \in Values, skip \in Indices, g \in Slots :
        /\ ~crashed
        /\ (skip = 0 \/ skip >= _len[l]) => g = 0
        /\ Commit(Call("rfind", l, l, v, skip, 0, {}, g),
                  rfind(Cur, l, v, skip, g), m)

\* List<usize> r = l.findAll(v): r is a newly constructed list.
FindAll(l, m) ==
    \E v \in Values :
        /\ ~crashed
        /\ _len["r"] = 0 /\ head["r"] = NULL /\ tail["r"] = NULL
        /\ Commit(Call("findAll", l, l, v, 0, 0, {}, 0),
                  findAll(Cur, l, v, "r"), m)

Equals(l, m) ==
    \E o \in Lists :
        /\ ~crashed
        /\ Commit(Call("operator==", l, o, 0, 0, 0, {}, 0),
                  operatorEq(Cur, l, o), m)

\* List<T> r(l): r is a list object not yet constructed (or destroyed).
Copy(l, m) ==
    /\ ~crashed
    /\ _len["r"] = 0 /\ head["r"] = NULL /\ tail["r"] = NULL
    /\ Commit(Call("copy", "r", l, 0, 0, 0, {}, 0),
              copyConstruct(Cur, "r", l), m)

Calls ==
    UNION {
      { Call(op, l, l, v, 0, 0, {}, 0) :
          op \in {"pushFront", "pushBack"}, l \in Lists, v \in Values },
      { Call(op, l, l, 0, 0, 0, {}, 0) :
          op \in {"popFront", "popBack", "reverse", "clear"}, l \in Lists },
      { Call("at", l, l, 0, i, 0, {}, 0) : l \in Lists, i \in Indices },
      { Call(op, l, l, v, i, 0, {}, 0) :
          op \in {"insertForward", "insertBackward"}, l \in Lists,
          v \in Values, i \in Indices },
      { Call("remove", l, l, 0, i, 0, {}, 0) : l \in Lists, i \in Indices },
      { Call(op, l, l, 0, 0, 0, P, 0) :
          op \in {"retainIf", "removeIf"}, l \in Lists, P \in SUBSET Values },
      { Call(op, l, o, 0, 0, 0, {}, 0) :
          op \in {"append", "swap", "assign"}, l \in Lists, o \in Lists },
      { Call("sliceOff", l, o, 0, i, j, {}, 0) :
          l \in Lists, o \in Lists, i \in Indices, j \in Indices } }

\* The call c executes undefined behaviour in the current state: it
\* dereferences NULL or touches a destroyed node (a loop that never leaves a
\* cyclic chain ends in one or the other, or never ends).
Undefined(c) ==
    /\ c.op = "sliceOff" =>
         c.o # c.l /\ _len[c.o] = 0 /\ head[c.o] = NULL /\ tail[c.o] = NULL
    /\ Exec(c).ub \/ (Exec(c).fault /\ ~Exec(c).oom)

\* Some call executes undefined behaviour: the model follows the program no
\* further.
Fault ==
    /\ ~crashed
    /\ {c \in Calls : Undefined(c)} # {}
    /\ crashed' = TRUE
    /\ UNCHANGED <<heapVars, ops, last, stream>>

ListType ==
    /\ live \subseteq Nodes
    /\ _value \in [Slots -> Nat]
    /\ _back \in [Slots -> Nodes \cup {NULL}]
    /\ _next \in [Slots -> Nodes \cup {NULL}]
    /\ _value[NULL] = 0 /\ _back[NULL] = NULL /\ _next[NULL] = NULL
    /\ head \in [Objects -> Nodes \cup {NULL}]
    /\ tail \in [Objects -> Nodes \cup {NULL}]
    /\ _len \in [Objects -> 0..(USIZE_MOD - 1)]
    /\ crashed \in BOOLEAN
    /\ ops \in 0..MaxOps
    /\ stream.text \in Seq(DOMAIN DigitOf \cup {"[", "]", ",", " "})
    /\ stream.fail \in BOOLEAN /\ stream.eof \in BOOLEAN

\* List::List() for every list object, on an empty heap.
Init ==
    /\ live = {}
    /\ _value = [n \in Slots |-> 0]
    /\ _back = [n \in Slots |-> NULL]
    /\ _next = [n \in Slots |-> NULL]
    /\ head = [l \in Objects |-> NULL]
    /\ tail = [l \in Objects |-> NULL]
    /\ _len = [l \in Objects |-> 0]
    /\ crashed = FALSE
    /\ ops = 0
    /\ last = Call("init", "a", "a", 0, 0, 0, {}, 0)
    /\ stream = [text |-> <<>>, fail |-> FALSE, eof |-> FALSE]

\* Every operation, on either list.
Next ==
    \/ \E l \in Lists :
        \/ PushFront(l, Quiet)
        \/ PushBack(l, Quiet)
        \/ PopFront(l, Quiet)
        \/ PopBack(l, Quiet)
        \/ At(l, Quiet)
        \/ InsertForward(l, Quiet)
        \/ InsertBackward(l, Quiet)
        \/ Remove(l, Quiet)
        \/ RetainIf(l, Quiet)
        \/ RemoveIf(l, Quiet)
        \/ AppendTo(l, Quiet)
        \/ Swap(l, Quiet)
        \/ SliceOff(l, Quiet)
        \/ Reverse(l, Quiet)
        \/ Clear(l, Quiet)
        \/ Assign(l, Quiet)
    \/ Fault

Spec == Init /\ [][Next]_vars

\* One list, mutated only by push, pop, insert and remove within their
\* preconditions.
NextBasic ==
    \/ PushFront("a", Seen)
    \/ PushBack("a", Seen)
    \/ PopFront("a", Seen)
    \/ PopBack("a", Seen)
    \/ InsertForward("a", Seen)
    \/ InsertBackward("a", Seen)
    \/ Remove("a", Seen)

SpecBasic == Init /\ [][NextBasic]_vars

\* One list built by pushBack and read by at.
NextAt ==
    \/ PushBack("a", Built)
    \/ At("a", Built)

SpecAt == Init /\ [][NextAt]_vars

\* One list built by pushBack and filtered by removeIf.
NextRemoveIf ==
    \/ PushBack("a", Built)
    \/ RemoveIf("a", Built)

SpecRemoveIf == Init /\ [][NextRemoveIf]_vars

\* One list built by pushBack and filtered by retainIf.
NextRetainIf ==
    \/ PushBack("a", Seen)
    \/ RetainIf("a", Seen)

SpecRetainIf == Init /\ [][NextRetainIf]_vars

\* Two lists built by pushBack and spliced by append.
NextAppend ==
    \E l \in Lists :
        \/ PushBack(l, Seen)
        \/ AppendTo(l, Seen)

SpecAppend == Init /\ [][NextAppend]_vars

\* List "a" built by pushBack and sliced into the new list "b", which is
\* destroyed (List::~List is clear) before the next slice.
NextSlice ==
    \/ PushBack("a", Seen)
    \/ SliceOff("a", Seen)
    \/ Clear("b", Seen)

SpecSlice == Init /\ [][NextSlice]_vars

\* List "a" built by pushBack, a range of it sliced off and appended again.
NextSplice ==
    \/ PushBack("a", Seen)
    \/ SliceOffAppend("a", Seen)

SpecSplice == Init /\ [][NextSplice]_vars

\* List "a" built by pushBack and reversed, once or twice in a row.
NextReverse ==
    \/ PushBack("a", Seen)
    \/ Reverse("a", Seen)
    \/ ReverseTwice("a", Seen)

SpecReverse == Init /\ [][NextReverse]_vars

\* Both lists built by pushBack and insertBackward, and cleared.
NextClear ==
    \E l \in Lists :
        \/ PushBack(l, Seen)
        \/ InsertBackward(l, Seen)
        \/ Clear(l, Seen)

SpecClear == Init /\ [][NextClear]_vars

\* Both lists built by pushBack and added; the sum r is destroyed
\* (List::~List is clear) before the next sum is built.
NextAdd ==
    \/ \E l \in Lists :
        \/ PushBack(l, Built)
        \/ Add(l, Built)
    \/ Clear("r", Built)

SpecAdd == Init /\ [][NextAdd]_vars

\* Lists built by pushBack, assigned to each other and copied into r, which
\* is destroyed (List::~List is clear) before the next copy is made.
NextCopy ==
    \/ \E l \in Lists :
        \/ PushBack(l, Paired)
        \/ Assign(l, Paired)
        \/ Copy(l, Paired)
    \/ Clear("r", Paired)

SpecCopy == Init /\ [][NextCopy]_vars

\* Two lists built at the back, shrunk at the front and compared.
NextEquals ==
    \E l \in Lists :
        \/ PushBack(l, Paired)
        \/ PopFront(l, Paired)
        \/ Equals(l, Paired)

SpecEquals == Init /\ [][NextEquals]_vars

\* One list built by pushBack and searched from the front.
NextFind ==
    \/ PushBack("a", Built)
    \/ Find("a", Built)

SpecFind == Init /\ [][NextFind]_vars

\* One list built by pushBack and searched from the back.
NextRFind ==
    \/ PushBack("a", Built)
    \/ RFind("a", Built)

SpecRFind == Init /\ [][NextRFind]_vars

\* One list built by pushBack and searched by findAll; the list of indices
\* r is destroyed (List::~List is clear) before the next search.
NextFindAll ==
    \/ PushBack("a", Built)
    \/ FindAll("a", Built)
    \/ Clear("r", Built)

SpecFindAll == Init /\ [][NextFindAll]_vars

\* A queue pushed to and popped from, with the log of its calls.
SpecQueue ==
    Init /\ [][QueuePush("a", Logged) \/ QueuePop("a", Logged)]_vars

\* A stack pushed to, popped from and looked at, with the log of its calls.
SpecStack ==
    Init /\ [][\/ StackPush("a", Logged)
               \/ StackPop("a", Logged)
               \/ StackTop("a", Logged)]_vars

\* Two stacks pushed to and appended to each other.
\* Nodes created unlinked and linked to and unlinked from each other.
SpecNode ==
    Init /\ [][\/ NodeNew(Paired)
               \/ LinkNext(Paired)
               \/ LinkBack(Paired)
               \/ Unlink(Paired)]_vars

\* Two lists built by pushBack and added to each other in place.
SpecPlusAssign ==
    Init /\ [][\E l \in Lists : \/ PushBack(l, Built)
                                \/ PlusAssign(l, Built)]_vars

\* Lists and a stream holding any text of up to MaxText characters.
InitStream ==
    /\ live = {}
    /\ _value = [n \in Slots |-> 0]
    /\ _back = [n \in Slots |-> NULL]
    /\ _next = [n \in Slots |-> NULL]
    /\ head = [l \in Objects |-> NULL]
    /\ tail = [l \in Objects |-> NULL]
    /\ _len = [l \in Objects |-> 0]
    /\ crashed = FALSE
    /\ ops = 0
    /\ last = Call("init", "a", "a", 0, 0, 0, {}, 0)
    /\ \E n \in 0..MaxText :
          \E t \in [1..n -> {"[", "]", ",", " ", "1"}] :
             stream = [text |-> t, fail |-> FALSE, eof |-> FALSE]

\* A list built by pushBack, read from the stream, and written to a stream
\* and read back.
SpecStream ==
    InitStream /\ [][\/ PushBack("a", Seen)
                     \/ Read("a", Seen)
                     \/ WriteRead("a", Seen)]_vars

SpecStackAppend ==
    Init /\ [][\E q \in Lists : \/ StackPush(q, Seen)
                                \/ StackAppend(q, Seen)]_vars

\* ------------------------------------------------- what the claims speak of
\* The nodes met from node n along _next, at most k of them.
RECURSIVE Walk(_, _)
Walk(n, k) ==
    IF n = NULL \/ k = 0 THEN <<>> ELSE <<n>> \o Walk(_next[n], k - 1)

\* The nodes met from node n along _back, at most k of them.
RECURSIVE WalkBack(_, _)
WalkBack(n, k) ==
    IF n = NULL \/ k = 0 THEN <<>> ELSE <<n>> \o WalkBack(_back[n], k - 1)

\* The walk from head through next links until next is absent (cut short
\* after MaxNodes + 1 nodes, which only a cyclic chain can reach).
Chain(l) == Walk(head[l], MaxNodes + 1)

\* The walk from tail through previous links.
ChainBack(l) == WalkBack(tail[l], MaxNodes + 1)

Range(s) == {s[i] : i \in 1..Len(s)}

\* The values of the list, in order from head.
Contents(l) == [i \in 1..Len(Chain(l)) |-> _value[Chain(l)[i]]]

\* C1: after any sequence of pushFront, pushBack, popFront, popBack,
\* insertForward, insertBackward and remove calls on an initially empty list
\* (pop and remove only on a non-empty list), the stored length is the number
\* of nodes the walk from head along next visits, and the last node visited
\* is tail.
C1_LengthIsWalk ==
    /\ _len["a"] = Len(Chain("a"))
    /\ Chain("a") # <<>> => Chain("a")[Len(Chain("a"))] = tail["a"]

\* C1 witness: a node was removed from the middle of a three-element list.
C1_Witness ==
    /\ last.op = "remove" /\ last.at = 1
    /\ _len["a"] = 2 /\ Len(Chain("a")) = 2

\* C2: after every mutating operation, for every list, length == 0 exactly
\* when head and tail are both absent, and length == 1 exactly when head and
\* tail are the same node.
C2_EndsMatchLength ==
    \A l \in Lists :
        /\ _len[l] = 0 <=> (head[l] = NULL /\ tail[l] = NULL)
        /\ _len[l] = 1 <=> (head[l] # NULL /\ head[l] = tail[l])

\* The nodes of list l's chain: those met from head along next and from tail
\* along previous.
ChainNodes(l) == Range(Chain(l)) \cup Range(ChainBack(l))

\* C3: in every reachable state, every node of a list's chain is the
\* previous of its next and the next of its previous, and head has no
\* previous and tail no next.
C3_LinksMirror ==
    \A l \in Lists :
        /\ \A n \in ChainNodes(l) :
              /\ _next[n] # NULL => _back[_next[n]] = n
              /\ _back[n] # NULL => _next[_back[n]] = n
        /\ head[l] # NULL => _back[head[l]] = NULL
        /\ tail[l] # NULL => _next[tail[l]] = NULL

\* C4: in every reachable state head, tail and the links reachable from them
\* refer only to allocated nodes, and every allocated node is reachable from
\* the head of exactly one list.
C4_OwnedOnce ==
    /\ \A l \in Lists :
          /\ head[l] \in live \cup {NULL}
          /\ tail[l] \in live \cup {NULL}
          /\ \A n \in ChainNodes(l) :
                /\ n \in live
                /\ _next[n] \in live \cup {NULL}
                /\ _back[n] \in live \cup {NULL}
    /\ \A n \in live :
          Cardinality({l \in Lists : n \in Range(Chain(l))}) = 1

\* The step is a call of op that ran to completion (last records it).
Called(op) == last'.op = op /\ last'.l = "a"

\* C5: at(index) with index >= length signals an out-of-range error and
\* leaves the list's length, head, tail, links and values unchanged.
C5_AtOutOfRange ==
    [][(Called("at") /\ last'.at >= _len["a"])
         => (last'.exc /\ UNCHANGED heapVars)]_vars

\* C5 witness: at(5) was called on a list of length 3 and threw.
C5_Witness ==
    /\ last.op = "at" /\ last.at = 5 /\ last.exc
    /\ _len["a"] = 3 /\ Len(Chain("a")) = 3

\* C6: for every list of length n and every index i < n, at(i) returns the
\* value of the i-th node counted from head, whichever branch of the node
\* resolution is taken, and does not modify the list.
C6_AtReturnsIth ==
    [][(Called("at") /\ last'.at < _len["a"])
         => /\ ~last'.exc
            /\ last'.ret = Contents("a")[last'.at + 1]
            /\ UNCHANGED heapVars]_vars

\* C6 witness: at(3) on a list of length 5, resolved by retreating from tail.
C6_Witness ==
    /\ last.op = "at" /\ last.at = 3 /\ ~last.exc
    /\ _len["a"] = 5 /\ Len(Chain("a")) = 5
    /\ last.at > _len["a"] \div 2 /\ last.at # _len["a"] - 1
    /\ last.ret = _value[_back[tail["a"]]]

\* C7: pushFront(v) makes v the first element and pushBack(v) the last, the
\* previous elements keep their order, the length grows by exactly 1, and on
\* an empty list the new node becomes both head and tail.
C7_PushEnds ==
    [][/\ Called("pushFront")
            => Contents("a")' = <<last'.v>> \o Contents("a")
       /\ Called("pushBack")
            => Contents("a")' = Contents("a") \o <<last'.v>>
       /\ (Called("pushFront") \/ Called("pushBack"))
            => /\ _len'["a"] = _len["a"] + 1
               /\ Chain("a")' \in {<<head'["a"]>> \o Chain("a"),
                                   Chain("a") \o <<tail'["a"]>>}
               /\ _len["a"] = 0
                    => /\ head'["a"] # NULL
                       /\ head'["a"] = tail'["a"]
                       /\ head'["a"] \in live']_vars

\* C7 witness: a pushFront on the empty list followed by a pushBack.
C7_Witness ==
    /\ last.op = "pushBack" /\ last.v = 2
    /\ Contents("a") = <<1, 2>> /\ _len["a"] = 2

\* C8: on a non-empty list popFront returns the head's value and popBack the
\* tail's; the adjacent node becomes the new head/tail with its outward link
\* absent, head and tail both become absent when the list had one element,
\* the old node is destroyed and the length decreases by exactly 1.
C8_PopEnds ==
    [][/\ (Called("popFront") /\ _len["a"] > 0)
            => /\ last'.ret = _value[head["a"]]
               /\ Contents("a")' = Tail(Contents("a"))
               /\ head'["a"] = _next[head["a"]]
               /\ head'["a"] # NULL => _back'[head'["a"]] = NULL
               /\ head["a"] \notin live'
               /\ _len'["a"] = _len["a"] - 1
               /\ _len["a"] = 1 => (head'["a"] = NULL /\ tail'["a"] = NULL)
       /\ (Called("popBack") /\ _len["a"] > 0)
            => /\ last'.ret = _value[tail["a"]]
               /\ Contents("a")' =
                      SubSeq(Contents("a"), 1, Len(Contents("a")) - 1)
               /\ tail'["a"] = _back[tail["a"]]
               /\ tail'["a"] # NULL => _next'[tail'["a"]] = NULL
               /\ tail["a"] \notin live'
               /\ _len'["a"] = _len["a"] - 1
               /\ _len["a"] = 1 => (head'["a"] = NULL /\ tail'["a"] = NULL)]_vars

\* C8 witness: popBack emptied a one-element list and returned its value.
C8_Witness ==
    /\ last.op = "popBack" /\ last.ret = 2
    /\ _len["a"] = 0 /\ live = {}

\* The sequence s with v placed at position k (1-based).
Placed(s, v, k) == SubSeq(s, 1, k - 1) \o <<v>> \o SubSeq(s, k, Len(s))

\* C9: for 0 <= index < length, insertForward(v, index) places a new node
\* holding v immediately after the element that was at index and
\* insertBackward(v, index) immediately before it; the length grows by
\* exactly 1 and the elements already present keep values and order.
C9_InsertAtIndex ==
    [][/\ (Called("insertForward") /\ last'.at < _len["a"])
            => Contents("a")' = Placed(Contents("a"), last'.v, last'.at + 2)
       /\ (Called("insertBackward") /\ last'.at < _len["a"])
            => Contents("a")' = Placed(Contents("a"), last'.v, last'.at + 1)
       /\ ((Called("insertForward") \/ Called("insertBackward"))
             /\ last'.at < _len["a"])
            => /\ _len'["a"] = _len["a"] + 1
               /\ \E k \in 1..(_len["a"] + 1) :
                     /\ Chain("a")'[k] \notin live
                     /\ Chain("a")' = Placed(Chain("a"), Chain("a")'[k], k)]_vars

\* C9 witness: insertForward(2, 0) into <<1, 1>>, through the link branch.
C9_Witness ==
    /\ last.op = "insertForward" /\ last.at = 0 /\ last.v = 2
    /\ Contents("a") = <<1, 2, 1>>

\* The step inserts at index 1 of a two-element list.
InsertsAtOneOfTwo(op) == Called(op) /\ last'.at = 1 /\ _len["a"] = 2

\* C10 as stated: on [A, C], insertForward(B, 1) and insertBackward(B, 1)
\* both yield [A, B, C].
C10_BothBetween ==
    [][(InsertsAtOneOfTwo("insertForward")
          \/ InsertsAtOneOfTwo("insertBackward"))
         => Contents("a")' =
                <<Contents("a")[1], last'.v, Contents("a")[2]>>]_vars

\* C10 amended: on [A, C], insertBackward(B, 1) yields [A, B, C] and
\* insertForward(B, 1) yields [A, C, B]: B becomes the successor of C.
C10_ForwardAfterLast ==
    [][/\ InsertsAtOneOfTwo("insertBackward")
            => Contents("a")' =
                   <<Contents("a")[1], last'.v, Contents("a")[2]>>
       /\ InsertsAtOneOfTwo("insertForward")
            => Contents("a")' =
                   <<Contents("a")[1], Contents("a")[2], last'.v>>]_vars

\* C10 witness: insertForward(1, 1) into <<1, 2>> gave <<1, 2, 1>>.
C10_Witness ==
    /\ last.op = "insertForward" /\ last.at = 1 /\ last.v = 1
    /\ Contents("a") = <<1, 2, 1>> /\ tail["a"] # NULL
    /\ _value[tail["a"]] = 1 /\ _value[_back[tail["a"]]] = 2

\* head, tail and _len of list "a" after the step are those of state T.
EndsAsIn(T) ==
    /\ head'["a"] = T.head["a"]
    /\ tail'["a"] = T.tail["a"]
    /\ _len'["a"] = T.len["a"]

\* C11: an insert with index >= length appends the value as the new tail,
\* insertBackward at index 0 makes it the new head and insertForward at
\* index length-1 the new tail; head, tail and length end up as after the
\* corresponding pushFront/pushBack and no error is raised.
C11_InsertRoutes ==
    [][/\ ((Called("insertForward") \/ Called("insertBackward"))
             /\ last'.at >= _len["a"])
            => /\ Contents("a")' = Contents("a") \o <<last'.v>>
               /\ tail'["a"] \notin live /\ _value'[tail'["a"]] = last'.v
               /\ EndsAsIn(pushBack(Cur, "a", last'.v))
               /\ ~last'.exc
       /\ (Called("insertBackward") /\ last'.at = 0)
            => /\ Contents("a")' = <<last'.v>> \o Contents("a")
               /\ head'["a"] \notin live /\ _value'[head'["a"]] = last'.v
               /\ EndsAsIn(pushFront(Cur, "a", last'.v))
               /\ ~last'.exc
       /\ (Called("insertForward") /\ _len["a"] > 0
             /\ last'.at = _len["a"] - 1)
            => /\ Contents("a")' = Contents("a") \o <<last'.v>>
               /\ tail'["a"] \notin live /\ _value'[tail'["a"]] = last'.v
               /\ EndsAsIn(pushBack(Cur, "a", last'.v))
               /\ ~last'.exc]_vars

\* C11 witness: insertForward(2, 1) on <<1, 1>>, the last index.
C11_Witness ==
    /\ last.op = "insertForward" /\ last.at = 1 /\ last.v = 2
    /\ Contents("a") = <<1, 1, 2>> /\ _value[tail["a"]] = 2

\* The index of the element remove(at) deletes from a list of length n > 0.
Removed(at_, n) == IF at_ >= n - 1 THEN n - 1 ELSE at_

\* The sequence s without its element at position k (1-based).
Without(s, k) == SubSeq(s, 1, k - 1) \o SubSeq(s, k + 1, Len(s))

\* C12: on a non-empty list remove(index) deletes exactly the element at
\* index (the last one when index >= length-1), returns that element's value
\* on every path, decrements the length by exactly 1 and keeps the remaining
\* elements in their original order.
C12_RemoveReturnsElement ==
    [][(Called("remove") /\ _len["a"] > 0)
         => /\ Contents("a")' =
                   Without(Contents("a"), Removed(last'.at, _len["a"]) + 1)
            /\ _len'["a"] = _len["a"] - 1
            /\ Cardinality(live') = Cardinality(live) - 1
            /\ last'.ret = Contents("a")[Removed(last'.at, _len["a"]) + 1]]_vars

\* The elements of s that are in P, respectively not in P, in order.
In(s, P) == SelectSeq(s, LAMBDA v : v \in P)
NotIn(s, P) == SelectSeq(s, LAMBDA v : v \notin P)

\* The nodes of list "a" whose value is outside P, respectively in P.
NodesNotIn(P) == SelectSeq(Chain("a"), LAMBDA n : _value[n] \notin P)
NodesIn(P) == SelectSeq(Chain("a"), LAMBDA n : _value[n] \in P)

\* C13: removeIf(p) removes exactly the elements for which p is true, keeps
\* the others in their original order, decrements the length once per
\* removed element and returns the number of elements removed.
C13_RemoveIfRemovesMatches ==
    [][Called("removeIf")
         => /\ Contents("a")' = NotIn(Contents("a"), last'.P)
            /\ _len'["a"] = _len["a"] - Len(In(Contents("a"), last'.P))
            /\ last'.ret = Len(In(Contents("a"), last'.P))]_vars

\* C14: when removeIf removes the first element, the last element or every
\* element, head and tail afterwards are the first and last surviving nodes
\* (both absent when none survives) and never a destroyed node.
C14_RemoveIfEnds ==
    [][(Called("removeIf") /\ _len["a"] = Len(Chain("a")))
         => /\ head'["a"] \in live' \cup {NULL}
            /\ tail'["a"] \in live' \cup {NULL}
            /\ NodesNotIn(last'.P) = <<>>
                 => (head'["a"] = NULL /\ tail'["a"] = NULL)
            /\ NodesNotIn(last'.P) # <<>>
                 => /\ head'["a"] = NodesNotIn(last'.P)[1]
                    /\ tail'["a"] =
                          NodesNotIn(last'.P)[Len(NodesNotIn(last'.P))]]_vars

\* C15: retainIf(p) keeps exactly the elements for which p is true, in
\* their original order, destroys the others, decrements the length once per
\* removed element and returns the number of elements removed.
C15_RetainIfKeepsMatches ==
    [][Called("retainIf")
         => /\ Contents("a")' = In(Contents("a"), last'.P)
            /\ Chain("a")' = NodesIn(last'.P)
            /\ Range(NodesNotIn(last'.P)) \cap live' = {}
            /\ _len'["a"] = _len["a"] - Len(NotIn(Contents("a"), last'.P))
            /\ last'.ret = Len(NotIn(Contents("a"), last'.P))]_vars

\* C15 witness: retainIf(keep 1) on <<2, 1, 2>> removed both ends.
C15_Witness ==
    /\ last.op = "retainIf" /\ last.P = {1} /\ last.ret = 2
    /\ Contents("a") = <<1>> /\ live = {head["a"]} /\ _len["a"] = 1

\* C16: when retainIf removes the last element while an earlier one
\* survives, tail is the last surviving node (not absent, not destroyed);
\* when it removes the first element head is the first surviving node; when
\* nothing survives both are absent.
C16_RetainIfEnds ==
    [][(Called("retainIf") /\ _len["a"] = Len(Chain("a"))
          /\ tail["a"] = (IF Chain("a") = <<>> THEN NULL
                          ELSE Chain("a")[Len(Chain("a"))]))
         => /\ NodesIn(last'.P) = <<>>
                 => (head'["a"] = NULL /\ tail'["a"] = NULL)
            /\ NodesIn(last'.P) # <<>>
                 => /\ head'["a"] = NodesIn(last'.P)[1]
                    /\ tail'["a"] = NodesIn(last'.P)[Len(NodesIn(last'.P))]
                    /\ tail'["a"] \in live']_vars

\* The step is a call l.append(o).
Appended(l, o) == last'.op = "append" /\ last'.l = l /\ last'.o = o

\* C17: for two distinct lists, l.append(o) makes l hold its former elements
\* followed by o's in order, its length the sum of both, leaves o empty
\* (length 0, head and tail absent) and creates or destroys no node; when l
\* was empty the outcome is that of swapping the lists, and when o is empty
\* nothing changes.
C17_AppendMoves ==
    [][\A l \in Lists : \A o \in Lists \ {l} :
         Appended(l, o)
           => /\ Contents(l)' = Contents(l) \o Contents(o)
              /\ Chain(l)' = Chain(l) \o Chain(o)
              /\ _len'[l] = _len[l] + _len[o]
              /\ tail'[l] = (IF _len[o] = 0 THEN tail[l] ELSE tail[o])
              /\ _len'[o] = 0 /\ head'[o] = NULL /\ tail'[o] = NULL
              /\ live' = live /\ _value' = _value
              /\ _len[l] = 0
                   => /\ head' = swap(Cur, l, o).head
                      /\ tail' = swap(Cur, l, o).tail
                      /\ _len' = swap(Cur, l, o).len
                      /\ UNCHANGED <<_back, _next>>
              /\ _len[o] = 0 => UNCHANGED heapVars]_vars

\* C17 witness: <<1>>.append(<<2, 1>>) relinked the three nodes.
C17_Witness ==
    /\ last.op = "append" /\ last.l = "a" /\ last.o = "b"
    /\ Contents("a") = <<1, 2, 1>> /\ _len["a"] = 3
    /\ _len["b"] = 0 /\ head["b"] = NULL /\ Cardinality(live) = 3

\* The step is b = a.sliceOff(start, end) with start < end <= length, on a
\* list whose length, head and tail are those of its chain.
Sliced ==
    /\ Called("sliceOff") /\ last'.o = "b"
    /\ last'.at < last'.to /\ last'.to <= _len["a"]
    /\ _len["a"] = Len(Chain("a"))
    /\ tail["a"] = Chain("a")[Len(Chain("a"))]

\* C18: for start < end <= length, sliceOff(start, end) returns a list that
\* holds exactly the elements formerly at [start, end) in order, with length
\* end-start, head the first and tail the last extracted node, and no link
\* from the extracted chain back into the donor.
C18_SliceResult ==
    [][Sliced
         => /\ Contents("b")' = SubSeq(Contents("a"), last'.at + 1, last'.to)
            /\ _len'["b"] = last'.to - last'.at
            /\ head'["b"] = Chain("a")[last'.at + 1]
            /\ tail'["b"] = Chain("a")[last'.to]
            /\ _back'[Chain("a")[last'.at + 1]] = NULL
            /\ _next'[Chain("a")[last'.to]] = NULL]_vars

\* C19: after sliceOff(start, end) with start < end <= length the donor
\* holds exactly the elements that were outside [start, end), in order; its
\* length is reduced by end-start, and its head and tail are its own first
\* and last remaining nodes (both absent when everything was sliced off).
C19_SliceDonor ==
    [][Sliced
         => /\ Chain("a")' = SubSeq(Chain("a"), 1, last'.at)
                               \o SubSeq(Chain("a"), last'.to + 1, _len["a"])
            /\ _len'["a"] = _len["a"] - (last'.to - last'.at)
            /\ head'["a"] = (IF Chain("a")' = <<>> THEN NULL
                             ELSE Chain("a")'[1])
            /\ tail'["a"] = (IF Chain("a")' = <<>> THEN NULL
                             ELSE Chain("a")'[Len(Chain("a")')])]_vars

\* An index above the length n taken as n.
Clamp(i, n) == IF i > n THEN n ELSE i

\* C20: sliceOff(start, end) treats any start or end greater than the length
\* as the length; when the clamped start >= the clamped end (any call on an
\* empty list included) it returns an empty list and leaves the donor's
\* length, head, tail, links and values unchanged.
C20_SliceClamps ==
    [][(Called("sliceOff") /\ last'.o = "b")
         => /\ Clamp(last'.at, _len["a"]) >= Clamp(last'.to, _len["a"])
                 => /\ UNCHANGED heapVars
                    /\ _len'["b"] = 0
                    /\ head'["b"] = NULL /\ tail'["b"] = NULL
            /\ Clamp(last'.at, _len["a"]) < Clamp(last'.to, _len["a"])
                 => /\ _len'["b"] = Clamp(last'.to, _len["a"]) - last'.at
                    /\ _len["a"] = Len(Chain("a"))
                         => /\ head'["b"] = Chain("a")[last'.at + 1]
                            /\ Contents("b")' =
                                  SubSeq(Contents("a"), last'.at + 1,
                                         Clamp(last'.to, _len["a"]))]_vars

\* C20 witness: sliceOff(2, 1) on a list of length 3 left everything as is.
C20_Witness ==
    /\ last.op = "sliceOff" /\ last.at = 2 /\ last.to = 1
    /\ _len["a"] = 3 /\ Len(Chain("a")) = 3 /\ tail["a"] = Chain("a")[3]
    /\ _len["b"] = 0 /\ head["b"] = NULL

\* The length, head and tail of list l are those of its chain.
Consistent(l) ==
    /\ _len[l] = Len(Chain(l))
    /\ tail[l] = (IF Chain(l) = <<>> THEN NULL ELSE Chain(l)[Len(Chain(l))])

\* C21: for valid bounds a < b <= length, L2 = L1.sliceOff(a, b) followed
\* by L1.append(L2) restores a list equal to the original L1: the same
\* values in the same order and the same length.
C21_SliceAppendRestores ==
    [][(Called("sliceOff;append") /\ last'.at < last'.to
          /\ last'.to <= _len["a"] /\ Consistent("a"))
         => /\ Contents("a")' = Contents("a")
            /\ _len'["a"] = _len["a"]]_vars

\* The sequence s back to front.
Rev(s) == [i \in 1..Len(s) |-> s[Len(s) + 1 - i]]

\* C22: for every list (empty, one element, or longer) applying reverse
\* twice yields a list equal to the original: the same values in the same
\* order, the same length, and the same nodes as head and tail.
C22_ReverseTwice ==
    [][Called("reverse;reverse")
         => /\ Contents("a")' = Contents("a")
            /\ Chain("a")' = Chain("a")
            /\ _len'["a"] = _len["a"]
            /\ head'["a"] = head["a"] /\ tail'["a"] = tail["a"]]_vars

\* C22 witness: a list of three nodes, reversed once and then twice more.
C22_Witness ==
    /\ last.op = "reverse;reverse"
    /\ Chain("a") = <<3, 2, 1>> /\ head["a"] = 3 /\ tail["a"] = 1

\* C23: reverse() turns [v0, ..., vn-1] into [vn-1, ..., v0] using the same
\* nodes: every node's previous and next are exchanged, head and tail are
\* exchanged and the length is unchanged; on an empty list nothing changes.
C23_ReverseFlips ==
    [][Called("reverse")
         => /\ Contents("a")' = Rev(Contents("a"))
            /\ Chain("a")' = Rev(Chain("a"))
            /\ live' = live /\ _value' = _value
            /\ \A n \in Range(Chain("a")) :
                   _next'[n] = _back[n] /\ _back'[n] = _next[n]
            /\ head'["a"] = tail["a"] /\ tail'["a"] = head["a"]
            /\ _len'["a"] = _len["a"]
            /\ _len["a"] = 0 => UNCHANGED heapVars]_vars

\* C23 witness: <<1, 2, 2>> was reversed into <<2, 2, 1>>.
C23_Witness ==
    /\ last.op = "reverse"
    /\ Chain("a") = <<3, 2, 1>> /\ Contents("a") = <<2, 2, 1>>
    /\ _back[3] = NULL /\ _next[1] = NULL

\* C24: clear() destroys every node of the list exactly once and leaves the
\* list empty (length 0, head and tail absent); on an empty list it changes
\* nothing, and the list is fully usable (push, insert) afterwards.
C24_ClearEmpties ==
    [][\A l \in Lists :
         /\ (last'.op = "clear" /\ last'.l = l)
              => /\ live' = live \ Range(Chain(l))
                 /\ _len'[l] = 0 /\ head'[l] = NULL /\ tail'[l] = NULL
                 /\ \A o \in Lists \ {l} :
                        Chain(o)' = Chain(o) /\ Contents(o)' = Contents(o)
                 /\ _len[l] = 0 => UNCHANGED heapVars
         /\ (last.op = "clear" /\ last.l = l /\ last'.l = l
               /\ last'.op \in {"pushBack", "insertBackward"})
              => /\ Contents(l)' = <<last'.v>>
                 /\ _len'[l] = 1
                 /\ head'[l] = tail'[l] /\ head'[l] \in live'
                 /\ _back'[head'[l]] = NULL /\ _next'[head'[l]] = NULL]_vars

\* C24 witness: list "a" held nodes 1 and 2 when "b" got node 3, and was
\* cleared.
C24_Witness ==
    /\ last.op = "clear" /\ last.l = "a"
    /\ live = {3} /\ head["b"] = 3
    /\ _len["a"] = 0 /\ head["a"] = NULL /\ tail["a"] = NULL

\* The list objects in Ls and every node alive before the step are as
\* they were: length, head, tail, links and values.
Untouched(Ls) ==
    /\ \A x \in Ls :
          head'[x] = head[x] /\ tail'[x] = tail[x] /\ _len'[x] = _len[x]
    /\ \A n \in live :
          /\ n \in live'
          /\ _value'[n] = _value[n]
          /\ _next'[n] = _next[n] /\ _back'[n] = _back[n]

\* C25: a + b returns a new list whose contents are a's values followed by
\* b's values, built entirely from newly created nodes; a and b (length,
\* head, tail, links, values) are left unchanged, also when a and b are the
\* same list.
C25_AddCopies ==
    [][\A l \in Lists : \A o \in Lists :
         (last'.op = "operator+" /\ last'.l = l /\ last'.o = o)
           => /\ Contents("r")' = Contents(l) \o Contents(o)
              /\ _len'["r"] = _len[l] + _len[o]
              /\ Range(Chain("r")') \cap live = {}
              /\ Range(Chain("r")') \subseteq live'
              /\ tail'["r"] = (IF Chain("r")' = <<>> THEN NULL
                               ELSE Chain("r")'[Len(Chain("r")')])
              /\ Untouched(Lists)]_vars

\* C25 witness: r = a + a with a = <<2>>, next to b = <<1, 2>>.
C25_Witness ==
    /\ last.op = "operator+" /\ last.l = "a" /\ last.o = "a"
    /\ Contents("a") = <<2>> /\ Contents("b") = <<1, 2>>
    /\ Contents("r") = <<2, 2>>
    /\ Range(Chain("a")) \cap Range(Chain("r")) = {}

\* The chain of list x after the step is a well-formed list of its own
\* nodes: length, tail, and the previous links mirror the next links.
WellFormedAfter(x) ==
    /\ _len'[x] = Len(Chain(x)')
    /\ tail'[x] = (IF Chain(x)' = <<>> THEN NULL
                   ELSE Chain(x)'[Len(Chain(x)')])
    /\ ChainBack(x)' = Rev(Chain(x)')
    /\ Range(Chain(x)') \subseteq live'

\* C26: copy construction and copy assignment leave the target equal to the
\* source, built from fresh nodes with correct head, tail and links and
\* sharing no node with the source, which is unchanged; the nodes the target
\* held before are destroyed; self-assignment changes nothing; and a later
\* pushBack on one list, or the destruction of one, leaves every other
\* list's chain and values as they were.
C26_CopyIsDeep ==
    [][/\ \A l \in Objects : \A o \in Lists :
            (last'.op \in {"assign", "copy"} /\ last'.l = l /\ last'.o = o)
              => IF l = o THEN heapVars' = heapVars
                 ELSE /\ Contents(l)' = Contents(o)
                      /\ _len'[l] = _len[o]
                      /\ WellFormedAfter(l)
                      /\ Range(Chain(l)') \cap (live \ Range(Chain(l))) = {}
                      /\ Range(Chain(l)') \cap Range(Chain(o)') = {}
                      /\ live' = (live \ Range(Chain(l)))
                                   \cup Range(Chain(l)')
                      /\ head'[o] = head[o] /\ tail'[o] = tail[o]
                      /\ _len'[o] = _len[o]
                      /\ Chain(o)' = Chain(o) /\ ChainBack(o)' = ChainBack(o)
                      /\ Contents(o)' = Contents(o)
       /\ \A l \in Objects :
            (last'.op \in {"pushBack", "clear"} /\ last'.l = l)
              => \A x \in Objects \ {l} :
                    /\ Chain(x)' = Chain(x) /\ ChainBack(x)' = ChainBack(x)
                    /\ Contents(x)' = Contents(x)
                    /\ _len'[x] = _len[x]]_vars

\* C26 witness: b = <<2>> was assigned a = <<1, 2>>; the two chains are
\* disjoint.
C26_Witness ==
    /\ last.op = "assign" /\ last.l = "b" /\ last.o = "a"
    /\ Contents("a") = <<1, 2>> /\ Contents("b") = <<1, 2>>
    /\ Range(Chain("a")) \cap Range(Chain("b")) = {}
    /\ Cardinality(live) = 4

\* C27: a == b is true exactly when the two lists have the same length and
\* equal values at every position; it is reflexive (a list equals itself),
\* symmetric (b == a gives the same answer) and modifies neither list.
C27_EqualsByValue ==
    [][\A l \in Lists : \A o \in Lists :
         (last'.op = "operator==" /\ last'.l = l /\ last'.o = o)
           => /\ last'.ret \in {0, 1}
              /\ last'.ret = 1
                   <=> /\ _len[l] = _len[o]
                       /\ \A i \in 1..Len(Chain(l)) :
                             /\ i <= Len(Chain(o))
                             /\ Contents(l)[i] = Contents(o)[i]
              /\ l = o => last'.ret = 1
              /\ ~operatorEq(Cur, o, l).fault
              /\ operatorEq(Cur, o, l).ret = last'.ret
              /\ heapVars' = heapVars]_vars

\* C27 witness: a and b both hold <<1, 2>> on different nodes and a == b
\* answered true.
C27_Witness ==
    /\ last.op = "operator==" /\ last.l = "a" /\ last.o = "b"
    /\ Contents("a") = <<1, 2>> /\ Contents("b") = <<1, 2>>
    /\ Chain("a") # Chain("b")
    /\ last.ret = 1

\* The indices (from 0) of list l's elements equal to v.
Matches(l, v) == {i \in 0..(Len(Contents(l)) - 1) : Contents(l)[i + 1] = v}

Least(I) == CHOOSE i \in I : \A j \in I : i <= j

Greatest(I) == CHOOSE i \in I : \A j \in I : j <= i

\* C28: find(value, skip) returns the smallest index i >= skip whose element
\* equals value, or NO_POS when there is none; skip >= length gives NO_POS;
\* the result is NO_POS or less than length; the list is not modified.
C28_FindFirstFrom ==
    [][Called("find")
         => /\ last'.ret =
                 (IF {i \in Matches("a", last'.v) : i >= last'.at} = {}
                  THEN NO_POS
                  ELSE Least({i \in Matches("a", last'.v) : i >= last'.at}))
            /\ last'.at >= _len["a"] => last'.ret = NO_POS
            /\ last'.ret = NO_POS \/ last'.ret < _len["a"]
            /\ heapVars' = heapVars]_vars

\* C28 witness: find(2, 1) on <<2, 1, 2>> passed the match at index 0 and
\* returned 2.
C28_Witness ==
    /\ last.op = "find" /\ last.v = 2 /\ last.at = 1
    /\ Contents("a") = <<2, 1, 2>>
    /\ last.ret = 2

\* C29: rfind(value, skip) scans backward from index length - 1 - skip and
\* returns the largest index i <= length - 1 - skip whose element equals
\* value, or NO_POS when there is none, for every 0 <= skip < length (not
\* only skip = 0); skip >= length gives NO_POS.
C29_RFindLastFrom ==
    [][Called("rfind")
         => IF last'.at >= _len["a"] THEN last'.ret = NO_POS
            ELSE last'.ret =
                 (IF {i \in Matches("a", last'.v) :
                        i <= _len["a"] - 1 - last'.at} = {}
                  THEN NO_POS
                  ELSE Greatest({i \in Matches("a", last'.v) :
                                   i <= _len["a"] - 1 - last'.at}))]_vars

\* C30: findAll(value) returns a list holding exactly the indices
\* i < length whose element equals value, each once and in strictly
\* ascending order (the empty list when there is none); the searched list is
\* unchanged.
C30_FindAllIndices ==
    [][Called("findAll")
         => /\ Range(Contents("r")') = Matches("a", last'.v)
            /\ \A i \in 1..Len(Contents("r")') :
                  \A j \in 1..Len(Contents("r")') :
                      i < j => Contents("r")'[i] < Contents("r")'[j]
            /\ \A i \in Range(Contents("r")') : i < _len["a"]
            /\ WellFormedAfter("r")
            /\ Untouched({"a"})
            /\ Contents("a")' = Contents("a")]_vars

\* C30 witness: findAll(2) on <<2, 1, 2>> returned <<0, 2>>.
C30_Witness ==
    /\ last.op = "findAll" /\ last.v = 2
    /\ Contents("a") = <<2, 1, 2>>
    /\ Contents("r") = <<0, 2>>

\* The calls of op in the log, in order, and the number of them among the
\* first k calls.
LogOf(op) == SelectSeq(last.log, LAMBDA e : e.op = op)

CountOf(op, k) == Cardinality({i \in 1..k : last.log[i].op = op})

\* C31: in any run of push and pop calls on a queue, each pop returns the
\* oldest value pushed and not yet popped (the pop after p earlier pops
\* returns the value of push number p + 1) and len() is pushes minus pops;
\* pushing 1, 2, 3 and popping three times yields 1, 2, 3 and leaves the
\* queue empty.
C31_QueueIsFifo ==
    /\ \A k \in 1..Len(last.log) :
          last.log[k].op = "Queue::pop"
            => /\ CountOf("Queue::pop", k) <= CountOf("Queue::push", k)
               /\ last.log[k].ret
                    = LogOf("Queue::push")[CountOf("Queue::pop", k)].v
    /\ last.op \in {"Queue::push", "Queue::pop"}
         => _len["a"] = Len(LogOf("Queue::push")) - Len(LogOf("Queue::pop"))
    /\ (/\ Len(last.log) = 6
        /\ \A k \in 1..3 : last.log[k] = [op |-> "Queue::push", v |-> k,
                                          ret |-> 0]
        /\ \A k \in 4..6 : last.log[k].op = "Queue::pop")
         => /\ \A k \in 4..6 : last.log[k].ret = k - 3
            /\ _len["a"] = 0 /\ head["a"] = NULL /\ tail["a"] = NULL

\* C31 witness: 1, 2, 3 were pushed and three pops returned 1, 2, 3.
C31_Witness ==
    /\ Len(last.log) = 6
    /\ \A k \in 1..3 : last.log[k].op = "Queue::push" /\ last.log[k].v = k
    /\ \A k \in 4..6 :
          last.log[k].op = "Queue::pop" /\ last.log[k].ret = k - 3
    /\ _len["a"] = 0

\* The values pushed and not yet popped after the first k calls of the
\* log, oldest first.
RECURSIVE Unpopped(_)
Unpopped(k) ==
    IF k = 0 THEN <<>>
    ELSE IF last.log[k].op = "Stack::push"
    THEN Append(Unpopped(k - 1), last.log[k].v)
    ELSE IF last.log[k].op = "Stack::pop" /\ Unpopped(k - 1) # <<>>
    THEN SubSeq(Unpopped(k - 1), 1, Len(Unpopped(k - 1)) - 1)
    ELSE Unpopped(k - 1)

\* C32: in any run of push and pop calls on a stack, each pop returns the
\* most recently pushed value not yet popped, and top returns that same
\* value and removes nothing; pushing 1, 2, 3 and popping three times
\* yields 3, 2, 1.
C32_StackIsLifo ==
    /\ \A k \in 1..Len(last.log) :
          last.log[k].op \in {"Stack::pop", "Stack::top"}
            => /\ Unpopped(k - 1) # <<>>
               /\ last.log[k].ret = Unpopped(k - 1)[Len(Unpopped(k - 1))]
    /\ last.op \in {"Stack::push", "Stack::pop", "Stack::top"}
         => /\ Contents("a") = Unpopped(Len(last.log))
            /\ _len["a"] = Len(Unpopped(Len(last.log)))
    /\ (/\ Len(last.log) = 6
        /\ \A k \in 1..3 : last.log[k] = [op |-> "Stack::push", v |-> k,
                                          ret |-> 0]
        /\ \A k \in 4..6 : last.log[k].op = "Stack::pop")
         => \A k \in 4..6 : last.log[k].ret = 7 - k

\* C32 witness: 1, 2 were pushed, top returned 2, 3 was pushed, and two pops
\* returned 3 and 2.
C32_Witness ==
    /\ Len(last.log) = 6
    /\ last.log[1].op = "Stack::push" /\ last.log[1].v = 1
    /\ last.log[2].op = "Stack::push" /\ last.log[2].v = 2
    /\ last.log[3].op = "Stack::top" /\ last.log[3].ret = 2
    /\ last.log[4].op = "Stack::push" /\ last.log[4].v = 3
    /\ last.log[5].op = "Stack::pop" /\ last.log[5].ret = 3
    /\ last.log[6].op = "Stack::pop" /\ last.log[6].ret = 2
    /\ Contents("a") = <<1>>

\* C33: after a.append(b) on two distinct stacks with b non-empty, b is
\* empty, a holds all elements of both, a's top is the element that was b's
\* top, and pops return b's former elements in b's pop order (b's top
\* first) before a's former elements in a's pop order: from bottom to top, a
\* holds its former contents and then b's former contents.
C33_StackAppendKeepsOrder ==
    [][\A q \in Lists : \A o \in Lists :
         (/\ last'.op = "Stack::append" /\ last'.l = q /\ last'.o = o
          /\ Contents(o) # <<>>)
           => /\ _len'[o] = 0 /\ Contents(o)' = <<>>
              /\ _len'[q] = _len[q] + _len[o]
              /\ Contents(q)' # <<>>
              /\ Contents(q)'[Len(Contents(q)')]
                   = Contents(o)[Len(Contents(o))]
              /\ Contents(q)' = Contents(q) \o Contents(o)]_vars

\* C34: for every list L (empty, one element, several elements), writing L
\* to a text stream and reading that text back into an empty list leaves
\* the stream not in a failure state and produces a list equal to L.
C34_RoundTrip ==
    [][Called("operator<<;operator>>")
         => /\ ~stream'.fail
            /\ Contents("r")' = Contents("a")
            /\ _len'["r"] = _len["a"]]_vars

\* The characters of text t other than white space.
NonBlank(t) == SelectSeq(t, LAMBDA c : c # " ")

\* The number a sequence of digits denotes.
RECURSIVE Decimal(_)
Decimal(t) ==
    IF t = <<>> THEN 0
    ELSE 10 * Decimal(SubSeq(t, 1, Len(t) - 1)) + DigitOf[t[Len(t)]]

\* The numbers written in text t.
NumbersIn(t) ==
    {Decimal(SubSeq(t, i, j)) :
       <<i, j>> \in {p \in (1..Len(t)) \X (1..Len(t)) :
                       /\ p[1] <= p[2]
                       /\ \A k \in p[1]..p[2] : t[k] \in DOMAIN DigitOf}}

\* C35: reading a list from input whose first character after white space
\* is not '[', or from exhausted input, sets the stream's failure state,
\* raises no exception and leaves the list unchanged; whatever the input,
\* the list afterwards holds its former elements followed only by values
\* parsed from the input, and its head, tail and length are consistent.
C35_ReadFailsSoftly ==
    [][Called("operator>>")
         => /\ ~last'.exc
            /\ (NonBlank(stream.text) = <<>>
                  \/ NonBlank(stream.text)[1] # "[")
                 => stream'.fail /\ UNCHANGED heapVars
            /\ Len(Contents("a")') >= Len(Contents("a"))
            /\ SubSeq(Contents("a")', 1, Len(Contents("a"))) = Contents("a")
            /\ \A i \in (Len(Contents("a")) + 1)..Len(Contents("a")') :
                  Contents("a")'[i] \in NumbersIn(stream.text)
            /\ WellFormedAfter("a")
            /\ head'["a"] = NULL <=> _len'["a"] = 0]_vars

\* C35 witness: reading "[,1 " into a = <<2>> pushed 1 and then failed at
\* the end of the text.
C35_Witness ==
    /\ last.op = "operator>>"
    /\ stream.fail /\ stream.eof /\ stream.text = <<>>
    /\ Contents("a") = <<2, 1>>

Mirrored ==
    \A x \in live :
        /\ _next[x] # NULL => _next[x] \in live /\ _back[_next[x]] = x
        /\ _back[x] # NULL => _back[x] \in live /\ _next[_back[x]] = x

\* The next and the previous of node x once node m is taken out of its
\* chain, its former neighbours linked to each other.
NextWithout(m, x) == IF _next[x] = m THEN _next[m] ELSE _next[x]

BackWithout(m, x) == IF _back[x] = m THEN _back[m] ELSE _back[x]

\* C37: self->linkNext(other) changes nothing when other is absent or is
\* self; otherwise other is first removed from its chain (its former
\* neighbours become linked to each other) and then placed so that
\* self -> other -> X replaces self -> X, all links mutually consistent,
\* also when other was self's next or self's previous; linkBack is the
\* mirror image.
C37_LinkPlaces ==
    [][/\ Called("linkNext")
            => IF last'.to = NULL \/ last'.to = last'.at
               THEN UNCHANGED heapVars
               ELSE /\ _next'[last'.at] = last'.to
                    /\ _back'[last'.to] = last'.at
                    /\ _next'[last'.to] = NextWithout(last'.to, last'.at)
                    /\ \A x \in live \ {last'.at, last'.to} :
                          _next'[x] = NextWithout(last'.to, x)
                    /\ _back'[last'.at] = BackWithout(last'.to, last'.at)
                    /\ Mirrored'
                    /\ live' = live /\ _value' = _value
       /\ Called("linkBack")
            => IF last'.to = NULL \/ last'.to = last'.at
               THEN UNCHANGED heapVars
               ELSE /\ _back'[last'.at] = last'.to
                    /\ _next'[last'.to] = last'.at
                    /\ _back'[last'.to] = BackWithout(last'.to, last'.at)
                    /\ \A x \in live \ {last'.at, last'.to} :
                          _back'[x] = BackWithout(last'.to, x)
                    /\ _next'[last'.at] = NextWithout(last'.to, last'.at)
                    /\ Mirrored'
                    /\ live' = live /\ _value' = _value]_vars

\* C37 witness: in the chain 1 -> 2 -> 3 -> 4, node 1 linked node 3 after
\* itself: 1 -> 3 -> 2 -> 4.
C37_Witness ==
    /\ last.op = "linkNext" /\ last.at = 1 /\ last.to = 3
    /\ _next[1] = 3 /\ _next[3] = 2 /\ _next[2] = 4 /\ _next[4] = NULL
    /\ _back[4] = 2 /\ _back[2] = 3 /\ _back[3] = 1 /\ _back[1] = NULL

\* C38: unlink links the node's former previous and next neighbours to each
\* other (when each exists) and leaves the node with both neighbour
\* references absent; unlinking a node that is already unlinked changes no
\* node at all.
C38_UnlinkDetaches ==
    [][Called("unlink")
         => /\ _next'[last'.at] = NULL /\ _back'[last'.at] = NULL
            /\ _back[last'.at] # NULL
                 => _next'[_back[last'.at]] = _next[last'.at]
            /\ _next[last'.at] # NULL
                 => _back'[_next[last'.at]] = _back[last'.at]
            /\ \A x \in live \ {last'.at} :
                  /\ _next'[x] = NextWithout(last'.at, x)
                  /\ _back'[x] = BackWithout(last'.at, x)
            /\ Mirrored'
            /\ (_next[last'.at] = NULL /\ _back[last'.at] = NULL)
                 => UNCHANGED heapVars]_vars

\* C38 witness: node 2 was unlinked from the chain 1 -> 2 -> 3, which is
\* now 1 -> 3.
C38_Witness ==
    /\ last.op = "unlink" /\ last.at = 2
    /\ _next[2] = NULL /\ _back[2] = NULL
    /\ _next[1] = 3 /\ _back[3] = 1

\* C39: a += b finishes for every pair of finite lists, also when b is a
\* itself and non-empty: it appends one copy of each element b held when
\* the call began (doubling a's length for a += a) and returns normally,
\* given free nodes for the copies.
C39_PlusAssignFinishes ==
    [][\A l \in Lists : \A o \in Lists :
         (/\ last'.op = "operator+=" /\ last'.l = l /\ last'.o = o
          /\ Cardinality(live) + _len[o] <= MaxNodes)
           => /\ ~last'.exc
              /\ Contents(l)' = Contents(l) \o Contents(o)
              /\ _len'[l] = _len[l] + _len[o]]_vars

\* No node is met again by following next links, or previous links, from
\* it.
NoCycle ==
    \A n \in live :
        /\ n \notin Range(Walk(_next[n], MaxNodes + 1))
        /\ n \notin Range(WalkBack(_back[n], MaxNodes + 1))

\* Every node alive is on the chain of some list.
AllOwned == \A n \in live : \E x \in Lists : n \in Range(Chain(x))

\* C40: a.append(a) on a non-empty list leaves a valid list: no cycle in
\* the next/previous links, no node alive that no list reaches, and head,
\* tail and length consistent with each other and with the chain.
C40_SelfAppendKeepsValid ==
    [][\A l \in Lists :
         (Appended(l, l) /\ _len[l] >= 1 /\ NoCycle /\ AllOwned)
           => /\ NoCycle'
              /\ AllOwned'
              /\ live' = live
              /\ _len'[l] = 0 <=> (head'[l] = NULL /\ tail'[l] = NULL)
              /\ _len'[l] = Len(Chain(l)')]_vars

=============================================================================
